---- MODULE Spec2Model ----
(***************************************************************************)
(* A model of the WASM policy runtime of crates/opa/src/wasm/mod.rs: the   *)
(* host side (Opa, EvalContext) and the guest module it drives through the *)
(* OPA WASM calling convention.                                            *)
(*                                                                         *)
(* The host operations are operators over an engine record (the fields of  *)
(* Opa, the guest's heap pointer, the size of the linear memory and the    *)
(* objects that lie in it); each returns the new engine record and the     *)
(* Result the Rust function returns.  The actions apply them.              *)
(*                                                                         *)
(* The guest is a conforming OPA module: its exports exist, opa_malloc is a *)
(* bump allocator over the heap pointer, and its evaluation is a           *)
(* deterministic function of what it reads in memory.  Two faults of the   *)
(* guest are followed, as inputs of build and of the calls on a context    *)
(* the caller holds: a trap of the call that releases the context (the     *)
(* failure destroy and Drop handle), and a dumped text that is malformed   *)
(* or has no terminating zero byte.  A trap of any other call ends the use *)
(* of the instance and is not followed.                                    *)
(* A guest whose allocation cannot grow the memory aborts: it calls the    *)
(* import opa_abort, and the default handler panics.                       *)
(* The builder keeps its default handlers; max_memory_pages is an input.   *)
(***************************************************************************)
EXTENDS Integers, Sequences, FiniteSets, TLC

(***************************************************************************)
(* Bounds of the model.                                                    *)
(***************************************************************************)
\* most path segments in an entrypoint name a caller passes
MaxSegments == 2
\* JSON values 0..MaxVal are the datasets and inputs a caller passes
MaxVal == 1
\* largest opa_wasm_abi_minor_version a module exports
MaxMinor == 2
\* most records a guest evaluation returns
MaxResults == 2
\* most entries of an archive Bundle::from_reader is given
MaxEntries == 3
\* most bytes of the memory an import reads a string from
MaxBytes == 3

(***************************************************************************)
(* Names, values and types the callers and the module draw from.           *)
(***************************************************************************)
Letters == {"a"}

Separators == {"/", "."}

\* a name is its characters: segments with a separator between two of them
Names ==
    UNION {{n \in [1..(2 * k - 1) -> Letters \cup Separators] :
               \A i \in 1..(2 * k - 1) :
                   IF i % 2 = 1 THEN n[i] \in Letters ELSE n[i] \in Separators}
           : k \in 1..MaxSegments}

\* the rule paths a module may publish, as OPA writes them
ModuleRules == {<<"a">>, <<"a", "/", "a">>}

EntrypointIds == 0..(Cardinality(ModuleRules) - 1)

\* OPA numbers the entrypoints of a module from 0
TableOn(K) ==
    {f \in [K -> 0..(Cardinality(K) - 1)] : \A a, b \in K : a # b => f[a] # f[b]}

Values == 0..MaxVal

\* a host value whose Serialize implementation fails
NotSerializable == -1

HostValues == Values \cup {NotSerializable}

\* the target types O a caller asks a decision to be decoded as
OutTypes == {"Value", "Bool"}

\* where the module's heap starts: near the end of the second page
HeapBases == {130000}

\* what the guest's opa_json_dump leaves at the address it returns
DumpKinds == {"text", "malformed", "unterminated"}

\* how many of the next release calls trap in the guest
TrapCounts == 0..2

AbiGlobals == {<<>>} \cup {<<v>> : v \in (-1)..MaxMinor}

PublishedTables == UNION {TableOn(K) : K \in SUBSET ModuleRules}

Modules == [entrypoints : PublishedTables, abi : AbiGlobals, heap_base : HeapBases]

\* OpaBuilder::max_memory_pages: <<>> is None (the default), <<n>> is Some(n)
MemoryLimits == {<<>>, <<3>>, <<4>>}

VARIABLES
    phase,           \* "new": the Opa struct is built, init() has not run; "ready"
    builder,         \* the OpaBuilder the instance was built with
    module,          \* the WASM module the instance was built from
    minor_version,   \* Opa::minor_version
    entrypoints,     \* Opa::entrypoints
    data_heap_ptr,   \* Opa::data_heap_ptr
    data_addr,       \* Opa::data_addr: <<>> is None, <<a>> is Some(Addr(a))
    input_heap_ptr,  \* Opa::input_heap_ptr
    heap,            \* the guest's heap pointer
    pages,           \* size of env_buffer, in pages
    mem,             \* the objects lying in env_buffer, by address
    ctx,             \* the live EvalContext: <<>> or <<ctx_addr>>
    ctx_heap,        \* the guest heap pointer when the live context was created
    ctx_input,       \* the input the live context was created with: <<>> or <<x>>
    dataset,         \* the value of the last successful set_data: <<>> or <<d>>
    last,            \* what is noted of the last call
    io               \* a call of a function that takes no instance: its inputs, its result

vars == <<phase, builder, module, minor_version, entrypoints, data_heap_ptr, data_addr,
          input_heap_ptr, heap, pages, mem, ctx, ctx_heap, ctx_input, dataset, last, io>>

\* the variables of the instance
instance == <<phase, builder, module, minor_version, entrypoints, data_heap_ptr, data_addr,
              input_heap_ptr, heap, pages, mem, ctx, ctx_heap, ctx_input, dataset, last>>

(***************************************************************************)
(* Results.                                                                *)
(***************************************************************************)
Ok(v) == [tag |-> "Ok", val |-> v]

Err(e) == [tag |-> e, val |-> 0]

NoData == "no data provided"

InvalidEntrypoint == "invalid entrypoint"

SerializeError == "serialize"

DecodeError == "decode"

NoResult == "no result"

\* the error of a guest call that trapped
GuestTrap == "guest trap"

\* bytes_at found no terminating zero byte (eval_once)
InvalidOutput == "invalid output"

\* the thread panics: the call does not return
Panic == "panic"

GrowError == "failed to grow memory"

(***************************************************************************)
(* JSON.                                                                   *)
(***************************************************************************)
JValue(v) == [t |-> "value", v |-> v]

JResults(rs) == [t |-> "results", v |-> rs]

JTable(f) == [t |-> "table", v |-> f]

JCorrupt == [t |-> "corrupt", v |-> 0]

\* length of the JSON text of a document
JsonLen(j) ==
    CASE j.t = "value" -> 2 + 70000 * j.v
      [] j.t = "results" -> 2 + 12 * Len(j.v)
      [] j.t = "table" -> 2 + 8 * Cardinality(DOMAIN j.v)
      [] OTHER -> 2

\* size of a parsed document in guest memory
DocLen(j) == JsonLen(j) + 8

CtxLen == 32

ScratchLen == 64

JsonType(r) == IF r % 2 = 0 THEN "Bool" ELSE "Object"

serde_json_to_vec(value) ==
    IF value = NotSerializable THEN Err(SerializeError) ELSE Ok(JValue(value))

\* serde_json::from_slice::<Vec<OpaOutput<O>>>
from_slice_outputs(j, O) ==
    IF j.t = "results" /\ \A i \in 1..Len(j.v) : O = "Value" \/ JsonType(j.v[i]) = O
    THEN Ok(j.v)
    ELSE Err(DecodeError)

\* serde_json::from_slice::<HashMap<String, u32>>
from_slice_table(j) == IF j.t = "table" THEN Ok(j.v) ELSE Err(DecodeError)

\* mutant: the first record is taken
pop_result_first(out) == IF out = <<>> THEN <<>> ELSE <<out[1]>>

\* out.pop().map(|v| v.result)
pop_result(out) == IF out = <<>> THEN <<>> ELSE <<out[Len(out)]>>

(***************************************************************************)
(* The linear memory.                                                      *)
(***************************************************************************)
PAGE_SIZE == 64 * 1024

\* mutant: the page count is truncated
round_up_truncated(bytes) == bytes \div PAGE_SIZE

round_up(bytes) == bytes \div PAGE_SIZE + (IF bytes % PAGE_SIZE # 0 THEN 1 ELSE 0)

InitialPages == 2

data_size(s) == s.pages * PAGE_SIZE

Overlaps(m, b, a, len) == b < a + len /\ a < b + m[b].len

\* the memory after [a, a + len) is written with one object
MemPut(m, a, len, kind, val) ==
    [b \in {c \in DOMAIN m : ~Overlaps(m, c, a, len)} \cup {a} |->
        IF b = a THEN [len |-> len, kind |-> kind, val |-> val] ELSE m[b]]

\* the document the guest finds at an address
DocAt(m, a) == IF a \in DOMAIN m /\ m[a].kind = "doc" THEN m[a].val ELSE JCorrupt

\* the JSON text that lies at an address
TextAt(m, a) == IF a \in DOMAIN m /\ m[a].kind = "bytes" THEN m[a].val ELSE JCorrupt

(***************************************************************************)
(* The guest's exports.  Each operator takes what it computes on as a      *)
(* parameter, so a step of a longer computation is an operator of its own. *)
(***************************************************************************)
\* the memory's maximum allows it to grow by delta pages
MayGrow(s, delta) == s.max_pages = <<>> \/ s.pages + delta <= s.max_pages[1]

\* the guest grows the memory when an allocation passes its end; when memory.grow
\* fails it aborts
GuestGrow(s) ==
    IF s.heap <= data_size(s) THEN s
    ELSE IF MayGrow(s, round_up(s.heap - data_size(s)))
         THEN [s EXCEPT !.pages = @ + round_up(s.heap - data_size(s))]
         ELSE [s EXCEPT !.aborted = TRUE]

\* the export "opa_malloc"; a guest that has aborted runs no further
opa_malloc(s, len) ==
    IF s.aborted THEN [st |-> s, addr |-> s.heap]
    ELSE [st |-> GuestGrow([s EXCEPT !.heap = @ + len]), addr |-> s.heap]

\* one object written over the range an allocation returned; an allocation that
\* aborted returns no range, and nothing is written
WriteAt(a, len, kind, val) ==
    IF a.st.aborted THEN a
    ELSE [st |-> [a.st EXCEPT !.mem = MemPut(@, a.addr, len, kind, val)], addr |-> a.addr]

GuestNew(s, len, kind, val) == WriteAt(opa_malloc(s, len), len, kind, val)

GuestNewDoc(s, j) == GuestNew(s, DocLen(j), "doc", j)

\* a JSON text and its terminating zero byte; a faulty dump leaves a malformed
\* text, or bytes with no zero byte up to the end of the memory
GuestNewText(s, j) ==
    GuestNew(s, JsonLen(j) + 1, IF s.dump = "unterminated" THEN "open" ELSE "bytes",
             IF s.dump = "text" THEN j ELSE JCorrupt)

opa_heap_ptr_get(s) == s.heap

opa_heap_ptr_set(s, addr) == [s EXCEPT !.heap = addr]

\* the export "opa_free": the engine record counts its calls
opa_free(s, addr) ==
    [s EXCEPT !.frees = @ + 1, !.mem = [a \in DOMAIN s.mem \ {addr} |-> s.mem[a]]]

opa_json_parse(s, addr, len) == GuestNewDoc(s, TextAt(s.mem, addr))

opa_json_dump(s, addr) == GuestNewText(s, DocAt(s.mem, addr))

guest_entrypoints(s) == GuestNewDoc(s, JTable(module.entrypoints))

\* the policy: the records an entrypoint yields for a dataset and an input
GuestPolicy(id, d, x) ==
    IF d.t # "value" \/ x.t # "value" \/ id \notin EntrypointIds
    THEN JCorrupt
    ELSE JResults([i \in 1..((id + d.v + x.v) % (MaxResults + 1)) |->
                      (id + 2 * d.v + x.v + i) % 4])

CtxRecord(input, data, entrypoint, result) ==
    [input |-> input, data |-> data, entrypoint |-> entrypoint, result |-> result]

IsCtx(m, a) == a \in DOMAIN m /\ m[a].kind = "ctx"

CtxAt(m, a) == IF IsCtx(m, a) THEN m[a].val ELSE CtxRecord(0, 0, 0, 0)

CtxSet(s, a, rec) == IF IsCtx(s.mem, a) THEN [s EXCEPT !.mem[a].val = rec] ELSE s

opa_eval_ctx_new(s) == GuestNew(s, CtxLen, "ctx", CtxRecord(0, 0, 0, 0))

opa_eval_ctx_set_input(s, c, addr) ==
    CtxSet(s, c, [CtxAt(s.mem, c) EXCEPT !.input = addr])

opa_eval_ctx_set_data(s, c, addr) ==
    CtxSet(s, c, [CtxAt(s.mem, c) EXCEPT !.data = addr])

opa_eval_ctx_set_entrypoint(s, c, id) ==
    CtxSet(s, c, [CtxAt(s.mem, c) EXCEPT !.entrypoint = id])

opa_eval_ctx_get_result(s, c) == CtxAt(s.mem, c).result

\* what the policy yields for the documents a context record refers to
ContextOut(m, rec) == GuestPolicy(rec.entrypoint, DocAt(m, rec.data), DocAt(m, rec.input))

StoreResult(r, c) ==
    IF r.st.aborted THEN r.st
    ELSE CtxSet(r.st, c, [CtxAt(r.st.mem, c) EXCEPT !.result = r.addr])

\* the working memory an evaluation allocates and writes
Scratch(s) == GuestNew(s, ScratchLen, "scratch", JCorrupt).st

\* an evaluation's result document; the engine record notes which export ran
\* and the document it produced (a guest that has aborted runs nothing)
GuestEvaluate(s, export, out) ==
    GuestNewDoc(IF s.aborted THEN s ELSE [s EXCEPT !.evaluated = export, !.guest_out = out],
                out)

guest_eval_scratch(s, c) ==
    StoreResult(GuestEvaluate(s, "eval",
                              IF IsCtx(s.mem, c) THEN ContextOut(s.mem, CtxAt(s.mem, c))
                              ELSE JCorrupt),
                c)

\* the export "eval": evaluates the context's entrypoint, leaves the result in it
guest_eval(s, c) == guest_eval_scratch(Scratch(s), c)

DumpNew(r) == opa_json_dump(r.st, r.addr)

opa_eval_scratch(s, entrypoint, data, input) ==
    DumpNew(GuestEvaluate(s, "opa_eval",
                          GuestPolicy(entrypoint, DocAt(s.mem, data), DocAt(s.mem, input))))

EvalParsed(x, entrypoint, data) == opa_eval_scratch(Scratch(x.st), entrypoint, data, x.addr)

\* the export "opa_eval": one call that parses the input, evaluates and dumps
opa_eval(s, entrypoint, data, input, input_len, heap_ptr) ==
    EvalParsed(opa_json_parse(opa_heap_ptr_set(s, heap_ptr), input, input_len),
               entrypoint, data)

(***************************************************************************)
(* Opa: the private helpers (mod.rs, second impl block).                   *)
(***************************************************************************)
None == <<>>

Some(a) == <<a>>

Return(s, res) == [st |-> s, res |-> res]

heap_ptr(s) == opa_heap_ptr_get(s)

set_heap_ptr(s, addr) == opa_heap_ptr_set(s, addr)

\* the call of a guest export returns, or unwinds with the abort handler's panic
Called(r) == IF r.st.aborted THEN Return(r.st, Err(Panic)) ELSE r

\* mutant: the memory grows past its maximum
env_buffer_grow_unbounded(s, delta) == Return([s EXCEPT !.pages = @ + delta], Ok(0))

\* Memory::grow: an Err when the memory's maximum would be passed
env_buffer_grow(s, delta) ==
    IF MayGrow(s, delta) THEN Return([s EXCEPT !.pages = @ + delta], Ok(0))
    ELSE Return(s, Err(GrowError))

\* null_terminated_slice: None when no zero byte follows the address
null_terminated_slice(m, addr) ==
    IF addr \in DOMAIN m /\ m[addr].kind = "open" THEN None ELSE Some(TextAt(m, addr))

bytes_at(s, addr) == null_terminated_slice(s.mem, addr)

\* self.bytes_at(json_addr).unwrap(): a None panics
json_at_dumped(d) ==
    Called(Return(d.st, IF bytes_at(d.st, d.addr) = None THEN Err(Panic)
                        ELSE Ok(bytes_at(d.st, d.addr)[1])))

\* opa_json_dump, then the text read at the returned address; the caller's type
\* decides the decoding (from_slice_table, from_slice_outputs)
json_at(s, addr) == json_at_dumped(opa_json_dump(s, addr))

\* Opa::free: the guest's opa_free (no caller)
free(s, addr) == Return(opa_free(s, addr), Ok(0))

alloc(s, len) == opa_malloc(s, len)

write_bytes(s, json) == WriteAt(alloc(s, JsonLen(json)), JsonLen(json), "bytes", json)

write_json_parsed(p) == Called(Return(p.st, Ok(p.addr)))

\* self.write_bytes(json)?: the panic of an aborted allocation unwinds, and
\* opa_json_parse is not called
write_json_bytes(b, json_size) ==
    IF b.st.aborted THEN Return(b.st, Err(Panic))
    ELSE write_json_parsed(opa_json_parse(b.st, b.addr, json_size))

write_json_vec(s, json) ==
    IF json.tag # "Ok" THEN Return(s, json)
    ELSE write_json_bytes(write_bytes(s, json.val), JsonLen(json.val))

write_json(s, value) == write_json_vec(s, serde_json_to_vec(value))

\* entrypoint.replace('.', "/")
replace_dots(name) == [i \in 1..Len(name) |-> IF name[i] = "." THEN "/" ELSE name[i]]

contains_dot(name) == \E i \in 1..Len(name) : name[i] = "."

\* mutant: a name that is not in the table gets the default id
entrypoints_get_or_default(s, name) ==
    IF name \in DOMAIN s.entrypoints THEN Ok(s.entrypoints[name]) ELSE Ok(0)

entrypoints_get(s, name) ==
    IF name \in DOMAIN s.entrypoints THEN Ok(s.entrypoints[name])
    ELSE Err(InvalidEntrypoint)

\* mutant: the name is looked up as written
entrypoint_id_verbatim(s, name) == entrypoints_get(s, name)

entrypoint_id(s, name) ==
    entrypoints_get(s, IF contains_dot(name) THEN replace_dots(name) ELSE name)

\* out.pop().map(|v| v.result).ok_or_else(..)
last_result(r) == IF r = <<>> THEN Err(NoResult) ELSE Ok(r[1])

\* mutant: the heap pointer is not restored after the evaluation
eval_once_result_no_rewind(s, out) ==
    IF out.tag # "Ok" THEN Return(s, out)
    ELSE Return(s, last_result(pop_result(out.val)))

eval_once_result(s, out) ==
    IF out.tag # "Ok" THEN Return(s, out)
    ELSE Return(set_heap_ptr(s, s.input_heap_ptr), last_result(pop_result(out.val)))

eval_once_read(s, bytes, O) ==
    IF bytes = None THEN Return(s, Err(InvalidOutput))
    ELSE eval_once_result(s, from_slice_outputs(bytes[1], O))

eval_once_output(g, O) ==
    IF g.st.aborted THEN Called(Return(g.st, Ok(0)))
    ELSE eval_once_read(g.st, bytes_at(g.st, g.addr), O)

\* mutant: the guest allocates from where its heap pointer stands
eval_once_call_from_heap(s, id, input_len, O) ==
    IF id.tag # "Ok" THEN Return(s, id)
    ELSE eval_once_output(opa_eval(s, id.val, s.data_addr[1], s.input_heap_ptr,
                                   input_len, heap_ptr(s)), O)

eval_once_call(s, id, input_len, O) ==
    IF id.tag # "Ok" THEN Return(s, id)
    ELSE eval_once_output(opa_eval(s, id.val, s.data_addr[1], s.input_heap_ptr,
                                   input_len, s.input_heap_ptr + input_len), O)

\* mutant: a name that resolves is added to the table as it was written
eval_once_written_caching(s, entrypoint, input_len, O) ==
    eval_once_call([s EXCEPT !.entrypoints =
                        IF entrypoint_id(s, entrypoint).tag = "Ok"
                        THEN (entrypoint :> entrypoint_id(s, entrypoint).val) @@ @
                        ELSE @],
                   entrypoint_id(s, entrypoint), input_len, O)

eval_once_written(s, entrypoint, input_len, O) ==
    eval_once_call(s, entrypoint_id(s, entrypoint), input_len, O)

\* copy(&mut &*input_bytes, &mut &mut data[input_idx..])
copy_input(s, json) ==
    [s EXCEPT !.mem = MemPut(@, s.input_heap_ptr, JsonLen(json), "bytes", json)]

grow_for_input(s, input_len) ==
    IF data_size(s) < s.input_heap_ptr + input_len
    THEN env_buffer_grow(s, round_up(s.input_heap_ptr + input_len - data_size(s)))
    ELSE Return(s, Ok(0))

\* self.env_buffer.grow(..)?
eval_once_grown(g, entrypoint, json, O) ==
    IF g.res.tag # "Ok" THEN g
    ELSE eval_once_written(copy_input(g.st, json), entrypoint, JsonLen(json), O)

eval_once_bytes(s, entrypoint, input_bytes, O) ==
    IF input_bytes.tag # "Ok" THEN Return(s, input_bytes)
    ELSE eval_once_grown(grow_for_input(s, JsonLen(input_bytes.val)), entrypoint,
                         input_bytes.val, O)

\* mutant: the memory is grown for the input before the dataset is checked
eval_once_grown_first(s, entrypoint, input, O) ==
    IF s.data_addr = None
    THEN Return(grow_for_input(s, JsonLen(JValue(input))).st, Err(NoData))
    ELSE eval_once_bytes(s, entrypoint, serde_json_to_vec(input), O)

eval_once(s, entrypoint, input, O) ==
    IF s.data_addr = None THEN Return(s, Err(NoData))
    ELSE Called(eval_once_bytes(s, entrypoint, serde_json_to_vec(input), O))

\* mutant: the global's value is taken as it is
abi_minor_version_unchecked == IF module.abi # <<>> THEN module.abi[1] ELSE 0

\* the module's global opa_wasm_abi_minor_version, as init reads it: i32(), then
\* try_into() a usize, 0 when either fails
abi_minor_version == IF module.abi # <<>> /\ module.abi[1] >= 0 THEN module.abi[1] ELSE 0

\* mutant: the decoded table is not stored
init_decoded_dropped(s, table) ==
    IF table.tag # "Ok" THEN Return(s, table)
    ELSE Return([s EXCEPT !.minor_version = abi_minor_version], Ok(0))

init_decoded(s, table) ==
    IF table.tag # "Ok" THEN Return(s, table)
    ELSE Return([s EXCEPT !.entrypoints = table.val, !.minor_version = abi_minor_version],
                Ok(0))

init_table(j) ==
    IF j.res.tag # "Ok" THEN j ELSE init_decoded(j.st, from_slice_table(j.res.val))

init_entrypoints(ep) == init_table(json_at(ep.st, ep.addr))

init_heap_ptrs(s) == [s EXCEPT !.data_heap_ptr = heap_ptr(s), !.input_heap_ptr = heap_ptr(s)]

\* Opa::init
init(s) == Called(init_entrypoints(guest_entrypoints(init_heap_ptrs(s))))

(***************************************************************************)
(* EvalContext.                                                            *)
(***************************************************************************)
\* mutant: the two addresses are bound the wrong way round
create_bound_swapped(c, data, input_addr) ==
    Return(opa_eval_ctx_set_input(opa_eval_ctx_set_data(c.st, c.addr, input_addr),
                                  c.addr, data),
           Ok(c.addr))

\* the panic of an aborted opa_eval_ctx_new unwinds before the addresses are bound
create_bound(c, data, input_addr) ==
    IF c.st.aborted THEN Return(c.st, Err(Panic))
    ELSE Return(opa_eval_ctx_set_input(opa_eval_ctx_set_data(c.st, c.addr, data),
                                       c.addr, input_addr),
                Ok(c.addr))

create_written(w, data) ==
    IF w.res.tag # "Ok" THEN w
    ELSE create_bound(opa_eval_ctx_new(w.st), data, w.res.val)

\* mutant: the data check is skipped and address 0 is bound
create_rewound_unchecked(s, input) ==
    create_written(write_json(s, input), IF s.data_addr = None THEN 0 ELSE s.data_addr[1])

create_rewound(s, input) ==
    IF s.data_addr = None THEN Return(s, Err(NoData))
    ELSE create_written(write_json(s, input), s.data_addr[1])

\* mutant: the context is written where the heap pointer stands
create_in_place(s, input) == Called(create_rewound(s, input))

\* EvalContext::create
create(s, input) == Called(create_rewound(set_heap_ptr(s, s.input_heap_ptr), input))

ctx_eval_pop(s, result) ==
    Return(s, IF result.tag # "Ok" THEN result ELSE last_result(pop_result(result.val)))

\* mutant: the heap pointer is restored to the input checkpoint, not to start_heap
ctx_eval_result_to_checkpoint(j, start_heap, O) ==
    IF j.res.tag # "Ok" THEN j
    ELSE ctx_eval_pop(set_heap_ptr(j.st, j.st.input_heap_ptr),
                      from_slice_outputs(j.res.val, O))

\* a panic of json_at unwinds; a text that does not decode is kept until the heap
\* pointer is restored
ctx_eval_result(j, start_heap, O) ==
    IF j.res.tag # "Ok" THEN j
    ELSE ctx_eval_pop(set_heap_ptr(j.st, start_heap), from_slice_outputs(j.res.val, O))

ctx_eval_read(s, ctx_addr, start_heap, O) ==
    ctx_eval_result(json_at(s, opa_eval_ctx_get_result(s, ctx_addr)), start_heap, O)

\* mutant: the evaluation allocates from the input checkpoint
ctx_eval_from_checkpoint(s, ctx_addr, O) ==
    ctx_eval_read(guest_eval(set_heap_ptr(s, s.input_heap_ptr), ctx_addr), ctx_addr,
                  heap_ptr(s), O)

ctx_eval_from(s, ctx_addr, O) ==
    ctx_eval_read(guest_eval(s, ctx_addr), ctx_addr, heap_ptr(s), O)

ctx_eval_id(s, ctx_addr, id, O) ==
    IF id.tag # "Ok" THEN Return(s, id)
    ELSE ctx_eval_from(opa_eval_ctx_set_entrypoint(s, ctx_addr, id.val), ctx_addr, O)

\* EvalContext::eval
ctx_eval(s, ctx_addr, entrypoint, O) ==
    Called(ctx_eval_id(s, ctx_addr, entrypoint_id(s, entrypoint), O))

\* mutant: the release leaves the heap pointer where it is
destroy_mut_kept(s) ==
    IF s.traps > 0
    THEN Return([s EXCEPT !.traps = @ - 1, !.releases = @ + 1], Err(GuestTrap))
    ELSE Return([s EXCEPT !.releases = @ + 1], Ok(0))

\* EvalContext::destroy_mut, the release: set_heap_ptr(input_heap_ptr)?, whose
\* guest call traps while the guest has traps left; the engine record counts the
\* release calls
destroy_mut(s) ==
    IF s.traps > 0
    THEN Return([s EXCEPT !.traps = @ - 1, !.releases = @ + 1], Err(GuestTrap))
    ELSE Return([set_heap_ptr(s, s.input_heap_ptr) EXCEPT !.releases = @ + 1], Ok(0))

\* mutant: a failed release is never raised
drop_released_silent(r, panicking) == Return(r.st, Ok(0))

\* if let Err(err) = .. { if !std::thread::panicking() { panic!(..) } }
drop_released(r, panicking) ==
    IF r.res.tag = "Ok" \/ panicking THEN Return(r.st, Ok(0)) ELSE Return(r.st, Err(Panic))

\* Drop for EvalContext; panicking: the thread is unwinding from a panic
drop(s, panicking) == drop_released(destroy_mut(s), panicking)

\* the Err of the release is returned unless the drop of self panics first
destroy_dropped(d, err) == IF d.res.tag = "Ok" THEN Return(d.st, err) ELSE d

\* mutant: self is dropped after a successful release as well
destroy_released_and_dropped(r) == destroy_dropped(drop(r.st, FALSE), r.res)

\* self.destroy_mut()?: on Err the function returns and self, still owned, is
\* dropped; on Ok ManuallyDrop keeps Drop from running
destroy_released(r) ==
    IF r.res.tag = "Ok" THEN r ELSE destroy_dropped(drop(r.st, FALSE), r.res)

\* EvalContext::destroy
destroy(s) == destroy_released(destroy_mut(s))

(***************************************************************************)
(* Opa: the public operations.                                             *)
(***************************************************************************)
\* mutant: the input checkpoint is not taken again

set_data_written_stale(w) ==
    IF w.res.tag # "Ok" THEN w
    ELSE Return([w.st EXCEPT !.data_addr = Some(w.res.val)], Ok(0))

\* mutant: the input checkpoint is taken again even when the write failed
set_data_written_retaken(w) ==
    IF w.res.tag # "Ok" THEN Return([w.st EXCEPT !.input_heap_ptr = heap_ptr(w.st)], w.res)
    ELSE Return([w.st EXCEPT !.data_addr = Some(w.res.val),
                             !.input_heap_ptr = heap_ptr(w.st)],
                Ok(0))

set_data_written(w) ==
    IF w.res.tag # "Ok" THEN w
    ELSE Return([w.st EXCEPT !.data_addr = Some(w.res.val),
                             !.input_heap_ptr = heap_ptr(w.st)],
                Ok(0))

\* mutant: the prior dataset is freed through the guest's opa_free first
set_data_freeing(s, data) ==
    set_data_written(
        write_json(set_heap_ptr(IF s.data_addr = None THEN s
                                ELSE free(s, s.data_addr[1]).st,
                                s.data_heap_ptr),
                   data))

\* mutant: the heap pointer is not rewound to the data checkpoint
set_data_no_rewind(s, data) == set_data_written(write_json(s, data))

set_data(s, data) ==
    Called(set_data_written(write_json(set_heap_ptr(s, s.data_heap_ptr), data)))

eval_destroyed(d, res) == IF d.res.tag # "Ok" THEN d ELSE Return(d.st, Ok(res.val))

\* ctx.eval(entrypoint)? failed: ctx is dropped as the function returns or unwinds
eval_failed(d, res) == IF d.res.tag = "Ok" THEN Return(d.st, res) ELSE d

\* mutant: a context whose eval failed is not dropped
eval_evaluated_kept(e) ==
    IF e.res.tag # "Ok" THEN e
    ELSE eval_destroyed(destroy(e.st), e.res)

eval_evaluated(e) ==
    IF e.res.tag # "Ok" THEN eval_failed(drop(e.st, e.res.tag = Panic), e.res)
    ELSE eval_destroyed(destroy(e.st), e.res)

eval_created(c, entrypoint, O) ==
    IF c.res.tag # "Ok" THEN c
    ELSE eval_evaluated(ctx_eval(c.st, c.res.val, entrypoint, O))

\* the body of Opa::eval below the version test
eval_with_context(s, entrypoint, input, O) == eval_created(create(s, input), entrypoint, O)

\* mutant: the single call is used from ABI minor version 1 on
eval_from_version_1(s, entrypoint, input, O) ==
    IF s.minor_version >= 1
    THEN eval_once(s, entrypoint, input, O)
    ELSE eval_with_context(s, entrypoint, input, O)

\* mutant: the entrypoint is looked up before anything else
eval_lookup_first(s, entrypoint, input, O) ==
    IF entrypoint_id(s, entrypoint).tag # "Ok" THEN Return(s, entrypoint_id(s, entrypoint))
    ELSE IF s.minor_version >= 2
    THEN eval_once(s, entrypoint, input, O)
    ELSE eval_with_context(s, entrypoint, input, O)

\* Opa::eval
eval(s, entrypoint, input, O) ==
    IF s.minor_version >= 2
    THEN eval_once(s, entrypoint, input, O)
    ELSE eval_with_context(s, entrypoint, input, O)

\* Opa::decide::<P>: path is P::POLICY_PATH and O is P::Output
decide(s, path, input, O) == eval(s, path, input, O)

eval_context(s, input) == create(s, input)

\* Opa::entrypoints, collected
entrypoints_iter(s) == DOMAIN s.entrypoints

(***************************************************************************)
(* The state machine.                                                      *)
(***************************************************************************)
\* the engine record the operations work on
Engine ==
    [minor_version |-> minor_version, entrypoints |-> entrypoints,
     data_heap_ptr |-> data_heap_ptr, data_addr |-> data_addr,
     input_heap_ptr |-> input_heap_ptr, heap |-> heap, pages |-> pages, mem |-> mem,
     max_pages |-> builder.buffer_max_mem_pages, evaluated |-> "none",
     guest_out |-> JCorrupt, releases |-> 0, frees |-> 0, traps |-> 0, dump |-> "text",
     aborted |-> FALSE]

\* the engine with a guest whose next release calls trap, or whose dumps are faulty
Faulty(traps, dump) == [Engine EXCEPT !.traps = traps, !.dump = dump]

\* the addresses the host can still hand to the guest: the dataset, and the live
\* context's record with the documents it refers to
Reachable(s, c) ==
    {s.data_addr[i] : i \in DOMAIN s.data_addr}
        \cup {c[i] : i \in DOMAIN c}
        \cup UNION {{CtxAt(s.mem, c[i]).input, CtxAt(s.mem, c[i]).data,
                     CtxAt(s.mem, c[i]).result} : i \in DOMAIN c}

\* mem keeps the objects the host can still reach; the bytes of the others stay in
\* env_buffer, and no later call is given their address
Collect(s, c) ==
    [s EXCEPT !.mem = [a \in DOMAIN s.mem \cap Reachable(s, c) |-> s.mem[a]]]

Install(s) ==
    /\ minor_version' = s.minor_version
    /\ entrypoints' = s.entrypoints
    /\ data_heap_ptr' = s.data_heap_ptr
    /\ data_addr' = s.data_addr
    /\ input_heap_ptr' = s.input_heap_ptr
    /\ heap' = s.heap
    /\ pages' = s.pages
    /\ mem' = s.mem

\* what is noted of a call: the operation, whether the name passed had a '.' and
\* was in the table, whether a dataset was set before it, the kind of the result, the guest
\* evaluation export that ran and the number of records it produced
Call(op, name, r) ==
    [op |-> op, dotted |-> contains_dot(name),
     known |-> entrypoint_id(Engine, name).tag = "Ok", prior |-> dataset # None,
     res |-> r.res.tag, evaluated |-> r.st.evaluated,
     records |-> IF r.st.guest_out.t = "results" THEN Len(r.st.guest_out.v) ELSE 0,
     releases |-> r.st.releases, frees |-> r.st.frees]

NoCall(op) ==
    [op |-> op, dotted |-> FALSE, known |-> FALSE, prior |-> dataset # None, res |-> "Ok",
     evaluated |-> "none", records |-> 0, releases |-> 0, frees |-> 0]

\* the Opa that build_module constructs before it calls init, in the memory of
\* the instantiated module
NewOpa ==
    [minor_version |-> 0, entrypoints |-> <<>>, data_heap_ptr |-> 0, data_addr |-> None,
     input_heap_ptr |-> 0, heap |-> module.heap_base, pages |-> InitialPages,
     mem |-> <<>>, max_pages |-> builder.buffer_max_mem_pages, evaluated |-> "none",
     guest_out |-> JCorrupt, releases |-> 0, frees |-> 0, traps |-> 0, dump |-> "text",
     aborted |-> FALSE]

\* no call of a function that takes no instance
Idle == [op |-> "none", done |-> TRUE]

\* OpaBuilder::build_module up to the call of init
Init ==
    /\ phase = "new"
    /\ builder \in [buffer_max_mem_pages : MemoryLimits]
    /\ module \in Modules
    /\ minor_version = NewOpa.minor_version
    /\ entrypoints = NewOpa.entrypoints
    /\ data_heap_ptr = NewOpa.data_heap_ptr
    /\ data_addr = NewOpa.data_addr
    /\ input_heap_ptr = NewOpa.input_heap_ptr
    /\ heap = NewOpa.heap
    /\ pages = NewOpa.pages
    /\ mem = NewOpa.mem
    /\ ctx = None
    /\ ctx_heap = 0
    /\ ctx_input = None
    /\ dataset = None
    /\ last = NoCall("new")
    /\ io = Idle

\* the phase after a call: a panic ends the use of the instance
After(r) == IF r.res.tag = Panic THEN "panicked" ELSE phase

\* OpaBuilder::build_module: opa.init()?; a failed init builds no instance
Build(dump) ==
    /\ phase = "new"
    /\ LET r == init(Faulty(0, dump))
       IN  /\ Install(Collect(r.st, None))
           /\ last' = Call("build", <<>>, r)
           /\ phase' = IF r.res.tag = "Ok" THEN "ready"
                       ELSE IF r.res.tag = Panic THEN "panicked" ELSE "failed"
    /\ UNCHANGED <<io, builder, module, ctx, ctx_heap, ctx_input, dataset>>

\* mutant: the context does not borrow the engine
FreeShared == phase = "ready"

\* no context borrows the engine: eval_context takes &'c mut self, and the
\* EvalContext holds that borrow as long as it lives
Free == phase = "ready" /\ ctx = None

SetData(data) ==
    /\ Free
    /\ LET r == set_data(Engine, data)
       IN  /\ Install(Collect(r.st, None))
           /\ last' = Call("set_data", <<>>, r)
           /\ dataset' = IF r.res.tag = "Ok" THEN Some(data) ELSE dataset
           /\ phase' = After(r)
    /\ UNCHANGED <<io, builder, module, ctx, ctx_heap, ctx_input>>

Eval(entrypoint, input, O) ==
    /\ Free
    /\ LET r == eval(Engine, entrypoint, input, O)
       IN  /\ Install(Collect(r.st, None))
           /\ last' = Call("eval", entrypoint, r)
           /\ phase' = After(r)
    /\ UNCHANGED <<io, builder, module, ctx, ctx_heap, ctx_input, dataset>>

\* the bindings P : PolicyDecision the callers define
PolicyBindings ==
    {[POLICY_PATH |-> <<"a">>, Output |-> "Value"],
     [POLICY_PATH |-> <<"a", ".", "a">>, Output |-> "Bool"]}

Decide(P, input) ==
    /\ Free
    /\ LET r == decide(Engine, P.POLICY_PATH, input, P.Output)
       IN  /\ Install(Collect(r.st, None))
           /\ last' = Call("decide", P.POLICY_PATH, r)
           /\ phase' = After(r)
    /\ UNCHANGED <<io, builder, module, ctx, ctx_heap, ctx_input, dataset>>

EvalContext(input) ==
    /\ Free
    /\ LET r == eval_context(Engine, input)
       IN  /\ Install(Collect(r.st, IF r.res.tag = "Ok" THEN Some(r.res.val) ELSE None))
           /\ last' = Call("eval_context", <<>>, r)
           /\ ctx' = IF r.res.tag = "Ok" THEN Append(ctx, r.res.val) ELSE ctx
           /\ ctx_heap' = IF r.res.tag = "Ok" THEN r.st.heap ELSE 0
           /\ ctx_input' = IF r.res.tag = "Ok" THEN Some(input) ELSE None
           /\ phase' = After(r)
    /\ UNCHANGED <<io, builder, module, dataset>>

\* the context after a call on it: a panic unwinds and drops it
Unwound(r) == IF r.res.tag = Panic THEN drop(r.st, TRUE).st ELSE r.st

CtxEval(entrypoint, O, dump) ==
    /\ phase = "ready" /\ ctx # None
    /\ LET r == ctx_eval(Faulty(0, dump), ctx[1], entrypoint, O)
       IN  /\ Install(Collect(Unwound(r), IF r.res.tag = Panic THEN None ELSE ctx))
           /\ last' = Call("ctx_eval", entrypoint, r)
           /\ phase' = After(r)
           /\ ctx' = IF r.res.tag = Panic THEN None ELSE ctx
           /\ ctx_heap' = IF r.res.tag = Panic THEN 0 ELSE ctx_heap
           /\ ctx_input' = IF r.res.tag = Panic THEN None ELSE ctx_input
    /\ UNCHANGED <<io, builder, module, dataset>>

CtxDestroy(traps) ==
    /\ phase = "ready" /\ ctx # None
    /\ LET r == destroy(Faulty(traps, "text"))
       IN  /\ Install(Collect(r.st, None))
           /\ last' = Call("destroy", <<>>, r)
           /\ phase' = After(r)
    /\ ctx' = None
    /\ ctx_heap' = 0
    /\ ctx_input' = None
    /\ UNCHANGED <<io, builder, module, dataset>>

\* the context goes out of scope; panicking: because the caller's code panicked
CtxDrop(traps, panicking) ==
    /\ phase = "ready" /\ ctx # None
    /\ LET r == drop(Faulty(traps, "text"), panicking)
       IN  /\ Install(Collect(r.st, None))
           /\ last' = Call(IF panicking THEN "unwind" ELSE "drop", <<>>, r)
           /\ phase' = IF panicking THEN "panicked" ELSE After(r)
    /\ ctx' = None
    /\ ctx_heap' = 0
    /\ ctx_input' = None
    /\ UNCHANGED <<io, builder, module, dataset>>

\* Opa::entrypoints(&self)
Entrypoints ==
    /\ Free
    /\ last' = NoCall("entrypoints")
    /\ UNCHANGED <<io, phase, builder, module, minor_version, entrypoints, data_heap_ptr, data_addr,
                   input_heap_ptr, heap, pages, mem, ctx, ctx_heap, ctx_input, dataset>>

Next ==
    \/ \E dump \in DumpKinds : Build(dump)
    \/ \E data \in HostValues : SetData(data)
    \/ \E entrypoint \in Names, input \in HostValues, O \in OutTypes :
          Eval(entrypoint, input, O)
    \/ \E P \in PolicyBindings, input \in HostValues : Decide(P, input)
    \/ \E input \in HostValues : EvalContext(input)
    \/ \E entrypoint \in Names, O \in OutTypes, dump \in DumpKinds :
          CtxEval(entrypoint, O, dump)
    \/ \E traps \in TrapCounts : CtxDestroy(traps)
    \/ \E traps \in TrapCounts, panicking \in BOOLEAN : CtxDrop(traps, panicking)
    \/ Entrypoints

Spec == Init /\ [][Next]_vars

(***************************************************************************)
(* The functions that take no instance: the closures build_module defines  *)
(* for the imports opa_abort and opa_println, OpaBuilder::build_from_bundle *)
(* and Bundle::from_reader.  A behaviour of HostSpec starts with the       *)
(* inputs of one call and applies the function to them.                    *)
(***************************************************************************)
\* the bytes a memory holds: the zero byte, 'A', and a byte no UTF-8 text has
ByteValues == {0, 65, 255}

Memories == UNION {[1..n -> ByteValues] : n \in 0..MaxBytes}

\* "invalid string in memory"
InvalidString ==
    <<105, 110, 118, 97, 108, 105, 100, 32, 115, 116, 114, 105, 110, 103, 32, 105, 110, 32,
      109, 101, 109, 111, 114, 121>>

\* OpaBuilder::on_abort and on_println: <<>> is None, the default handler
Handlers == [abort_cb : {None, Some("custom")}, println_cb : {None, Some("custom")}]

\* slice.iter().position(|b| *b == 0)
position_zero(slice) ==
    IF \E i \in 1..Len(slice) : slice[i] = 0
    THEN Some(CHOOSE i \in 1..Len(slice) :
                  slice[i] = 0 /\ \A j \in 1..(i - 1) : slice[j] # 0)
    ELSE None

\* std::str::from_utf8(..).ok(): the bytes below 128 are ASCII
from_utf8(bytes) ==
    IF \A i \in 1..Len(bytes) : bytes[i] < 128 THEN Some(bytes) ELSE None

str_until(slice, end) == IF end = None THEN None ELSE from_utf8(SubSeq(slice, 1, end[1] - 1))

null_terminated_str(slice) == str_until(slice, position_zero(slice))

\* &mem[addr..], with addr <= mem.len()
slice_from(bytes, addr) == SubSeq(bytes, addr + 1, Len(bytes))

\* what a call of an import did: the handlers it invoked, and how it ended
Invoked(handler, msg, end) ==
    [calls |-> <<[handler |-> handler, msg |-> msg]>>, res |-> end]

\* the abort handler: default_opa_abort panics
on_abort(h, msg) == Invoked("abort", msg, IF h.abort_cb = None THEN Panic ELSE "returned")

\* the log handler: default_opa_println prints
on_println(h, msg) == Invoked("println", msg, "returned")

abort_with(h, s) == on_abort(h, IF s = None THEN InvalidString ELSE s[1])

\* the closure of the import opa_abort; &mem[addr..] panics past the memory's end
opa_abort(h, bytes, addr) ==
    IF addr > Len(bytes) THEN [calls |-> <<>>, res |-> Panic]
    ELSE abort_with(h, null_terminated_str(slice_from(bytes, addr)))

\* mutant: a string that cannot be read goes to the log handler
println_with_logged(h, s) == on_println(h, IF s = None THEN InvalidString ELSE s[1])

println_with(h, s) ==
    IF s = None THEN on_abort(h, InvalidString) ELSE on_println(h, s[1])

\* the closure of the import opa_println
opa_println(h, bytes, addr) ==
    IF addr > Len(bytes) THEN [calls |-> <<>>, res |-> Panic]
    ELSE println_with(h, null_terminated_str(slice_from(bytes, addr)))

ImportCalls ==
    {[op |-> op, done |-> FALSE, handlers |-> h, bytes |-> b, addr |-> a, out |-> <<>>] :
        op \in {"opa_abort", "opa_println"}, h \in Handlers,
        b \in Memories, a \in 0..(MaxBytes + 1)}

(***************************************************************************)
(* Bundle::from_reader (bundle/mod.rs).                                    *)
(***************************************************************************)
\* a path, as has_ext splits it at its last '.'
PathOf(stem, ext) == [stem |-> stem, ext |-> ext]

ManifestPath == PathOf("/", "manifest")

DataPath == PathOf("/data", "json")

WasmPaths == {PathOf("/a", "wasm"), PathOf("/b", "WASM")}

RegoPaths == {PathOf("/a", "rego")}

\* e.eq_ignore_ascii_case(ext)
eq_ignore_ascii_case(e, ext) ==
    (IF e = "WASM" THEN "wasm" ELSE IF e = "REGO" THEN "rego" ELSE e) = ext

has_ext(path, ext) == eq_ignore_ascii_case(path.ext, ext)

\* the wasm entries a manifest lists
WasmEntries ==
    {[entrypoint |-> "p", module |-> PathOf("/a", "wasm")],
     [entrypoint |-> "q", module |-> PathOf("/b", "WASM")]}

Manifests == UNION {[1..n -> WasmEntries] : n \in 0..2}

\* what a file holds: JSON of a manifest, JSON that is no object, text that is
\* no JSON, or the bytes of a module or a policy
ManifestFiles ==
    {[t |-> "manifest", wasm |-> m] : m \in Manifests}
        \cup {[t |-> "value", v |-> 0], [t |-> "malformed"]}

DataFiles == {[t |-> "value", v |-> 0], [t |-> "malformed"]}

BinaryFiles == {[t |-> "bytes", id |-> i] : i \in 1..2}

Entries ==
    {[path |-> ManifestPath, file |-> f] : f \in ManifestFiles}
        \cup {[path |-> DataPath, file |-> f] : f \in DataFiles}
        \cup {[path |-> q, file |-> f] : q \in WasmPaths, f \in BinaryFiles}
        \cup {[path |-> q, file |-> [t |-> "bytes", id |-> 1]] : q \in RegoPaths}

Archives == UNION {[1..n -> Entries] : n \in 0..MaxEntries}

InvalidManifest == "invalid manifest"

InvalidData == "invalid data file"

\* serde_json::from_reader::<Manifest>
manifest_from_reader(file) ==
    IF file.t = "manifest" THEN Ok([wasm |-> file.wasm]) ELSE Err("json")

\* serde_json::from_reader::<Value>
value_from_reader(file) == IF file.t = "malformed" THEN Err("json") ELSE Ok(file)

\* HashMap::insert
insert(map, k, v) == [q \in DOMAIN map \cup {k} |-> IF q = k THEN v ELSE map[q]]

\* mutant: the first file of a path is kept
wasm_files_insert_first(acc, entry) ==
    Ok([acc EXCEPT !.wasm_files =
            IF entry.path \in DOMAIN @ THEN @ ELSE insert(@, entry.path, entry.file)])

wasm_files_insert(acc, entry) ==
    Ok([acc EXCEPT !.wasm_files = insert(@, entry.path, entry.file)])

manifest_parsed(acc, m) ==
    IF m.tag # "Ok" THEN Err(InvalidData) ELSE Ok([acc EXCEPT !.manifest = Some(m.val)])

data_parsed(acc, d) ==
    IF d.tag # "Ok" THEN Err(InvalidManifest) ELSE Ok([acc EXCEPT !.data = Some(d.val)])

\* the body of the loop over ar.entries(): the match on the entry's path
read_entry(acc, entry) ==
    IF entry.path = ManifestPath THEN manifest_parsed(acc, manifest_from_reader(entry.file))
    ELSE IF entry.path = DataPath THEN data_parsed(acc, value_from_reader(entry.file))
    ELSE IF has_ext(entry.path, "rego")
    THEN Ok([acc EXCEPT !.rego_policies = insert(@, entry.path, entry.file)])
    ELSE IF has_ext(entry.path, "wasm") THEN wasm_files_insert(acc, entry)
    ELSE Ok(acc)

RECURSIVE read_entries(_, _, _)
\* the loop: the first entry that fails ends it
read_entries(ar, i, acc) ==
    IF acc.tag # "Ok" \/ i > Len(ar) THEN acc
    ELSE read_entries(ar, i + 1, read_entry(acc.val, ar[i]))

RECURSIVE listed_policies(_, _, _)
\* for wasm_manifest in &m.wasm: a WasmPolicy for each module that is a file
listed_policies(wasm, i, files) ==
    IF i > Len(wasm) THEN <<>>
    ELSE (IF wasm[i].module \in DOMAIN files
          THEN <<[entrypoint |-> wasm[i].entrypoint, bytes |-> files[wasm[i].module]]>>
          ELSE <<>>) \o listed_policies(wasm, i + 1, files)

from_reader_read(r) ==
    IF r.tag # "Ok" THEN r
    ELSE Ok([manifest |-> r.val.manifest, data |-> r.val.data,
             rego_policies |-> r.val.rego_policies,
             wasm_policies |-> IF r.val.manifest = None THEN <<>>
                               ELSE listed_policies(r.val.manifest[1].wasm, 1,
                                                    r.val.wasm_files),
             wasmtime_bytes |-> None])

\* Bundle::from_reader, given the entries of the decompressed archive
from_reader(ar) ==
    from_reader_read(read_entries(ar, 1, Ok([manifest |-> None, data |-> None,
                                             rego_policies |-> <<>>,
                                             wasm_files |-> <<>>])))

ReaderCalls == {[op |-> "from_reader", done |-> FALSE, ar |-> a, out |-> <<>>] : a \in Archives}

(***************************************************************************)
(* OpaBuilder::build_from_bundle.                                          *)
(***************************************************************************)
\* the features the crate is compiled with: the wasm module needs one of the two
Features == {f \in [aot : BOOLEAN, cranelift : BOOLEAN] : f.aot \/ f.cranelift}

\* a precompiled artifact: whether Module::deserialize accepts it
NativeArtifacts == {[id |-> 3, loads |-> l] : l \in BOOLEAN}

\* a raw module: whether Module::from_binary accepts it
RawModules == {[id |-> i, compiles |-> c] : i \in 1..2, c \in BOOLEAN}

Policies == {[entrypoint |-> "p", bytes |-> b] : b \in RawModules}

Bundles ==
    [wasm_policies : UNION {[1..n -> Policies] : n \in 0..2},
     wasmtime_bytes : {None} \cup {Some(b) : b \in NativeArtifacts}]

\* what the backend and the guest do with a module: whether Memory::new creates
\* the memory, whether the linker instantiates the module, and what the guest's
\* dump of the entrypoints leaves
Guests == [memory : BOOLEAN, instantiates : BOOLEAN, dump : DumpKinds]

\* Ok(opa): the initialised instance, noted by what it was made from
build_module_initialized(r, kind, artifact) ==
    IF r.res.tag # "Ok" THEN r ELSE Return(r.st, Ok([from |-> kind, id |-> artifact.id]))

\* OpaBuilder::build_module on the Opa s it constructs: Memory::new(..)?,
\* linker.instantiate(..)?, opa.init()?
build_module(s, guest, kind, artifact) ==
    IF ~guest.memory THEN Return(s, Err("memory"))
    ELSE IF ~guest.instantiates THEN Return(s, Err("instantiate"))
    ELSE build_module_initialized(init([s EXCEPT !.dump = guest.dump]), kind, artifact)

\* Module::deserialize(&self.engine, b)?
build_native(s, guest, b) ==
    IF b.loads THEN build_module(s, guest, "native", b) ELSE Return(s, Err("deserialize"))

\* OpaBuilder::build: Module::from_binary(..)?
build(s, guest, wasm_bytes) ==
    IF wasm_bytes.compiles THEN build_module(s, guest, "wasm", wasm_bytes)
    ELSE Return(s, Err("compile"))

NoModule == "the bundle must at least one WASM module"

NoPrecompiled == "the bundle contains no precompiled WASM binary."

\* mutant: an artifact that does not load falls back to the raw modules
build_from_bundle_falling_back(s, guest, f, bundle) ==
    IF f.aot /\ bundle.wasmtime_bytes # None /\ bundle.wasmtime_bytes[1].loads
    THEN build_native(s, guest, bundle.wasmtime_bytes[1])
    ELSE IF f.cranelift
    THEN (IF bundle.wasm_policies = <<>> THEN Return(s, Err(NoModule))
          ELSE build(s, guest, bundle.wasm_policies[1].bytes))
    ELSE Return(s, Err(NoPrecompiled))

\* the cfg blocks of build_from_bundle, for the features f
build_from_bundle(s, guest, f, bundle) ==
    IF f.aot /\ bundle.wasmtime_bytes # None
    THEN build_native(s, guest, bundle.wasmtime_bytes[1])
    ELSE IF f.cranelift
    THEN (IF bundle.wasm_policies = <<>> THEN Return(s, Err(NoModule))
          ELSE build(s, guest, bundle.wasm_policies[1].bytes))
    ELSE Return(s, Err(NoPrecompiled))

\* Bundle::wasmtime_bytes exists under the feature wasmtime-aot alone
BuilderCalls ==
    {c \in [op : {"build_from_bundle"}, done : {FALSE}, features : Features,
            bundle : Bundles, guest : Guests, out : {<<>>}] :
        c.bundle.wasmtime_bytes = None \/ c.features.aot}

(***************************************************************************)
(* The calls, as a state machine.                                          *)
(***************************************************************************)
HostCalls == ImportCalls \cup ReaderCalls \cup BuilderCalls

\* the inputs of one call; the instance is the Opa build_module constructs
\* before it calls init
HostInit ==
    /\ io \in HostCalls
    /\ phase = "new"
    /\ builder = [buffer_max_mem_pages |-> None]
    /\ module = [entrypoints |-> <<>>, abi |-> <<>>, heap_base |-> 130000]
    /\ minor_version = NewOpa.minor_version
    /\ entrypoints = NewOpa.entrypoints
    /\ data_heap_ptr = NewOpa.data_heap_ptr
    /\ data_addr = NewOpa.data_addr
    /\ input_heap_ptr = NewOpa.input_heap_ptr
    /\ heap = NewOpa.heap
    /\ pages = NewOpa.pages
    /\ mem = NewOpa.mem
    /\ ctx = None
    /\ ctx_heap = 0
    /\ ctx_input = None
    /\ dataset = None
    /\ last = NoCall("new")

Returned(out) == io' = [io EXCEPT !.done = TRUE, !.out = out] /\ UNCHANGED instance

OpaAbort ==
    /\ io.op = "opa_abort" /\ ~io.done
    /\ Returned(opa_abort(io.handlers, io.bytes, io.addr))

OpaPrintln ==
    /\ io.op = "opa_println" /\ ~io.done
    /\ Returned(opa_println(io.handlers, io.bytes, io.addr))

FromReader ==
    /\ io.op = "from_reader" /\ ~io.done
    /\ Returned(from_reader(io.ar))

\* the call returns the instance init has initialised; a failed build returns none
BuildFromBundle ==
    /\ io.op = "build_from_bundle" /\ ~io.done /\ phase = "new"
    /\ LET r == build_from_bundle(Engine, io.guest, io.features, io.bundle)
       IN  /\ Install(Collect(r.st, None))
           /\ last' = Call("build", <<>>, r)
           /\ phase' = IF r.res.tag = "Ok" THEN "ready"
                       ELSE IF r.res.tag = Panic THEN "panicked" ELSE "failed"
           /\ io' = [io EXCEPT !.done = TRUE, !.out = r.res]
    /\ UNCHANGED <<builder, module, ctx, ctx_heap, ctx_input, dataset>>

HostNext == OpaAbort \/ OpaPrintln \/ FromReader \/ BuildFromBundle

HostSpec == HostInit /\ [][HostNext]_vars

(***************************************************************************)
(* Properties.                                                             *)
(***************************************************************************)
Ready == phase = "ready"

Live == Ready /\ ctx # None

Serializes(x) == serde_json_to_vec(x).tag = "Ok"

\* n is k with any of its separators written '.' or '/'
SpelledLike(n, k) ==
    /\ Len(n) = Len(k)
    /\ \A i \in 1..Len(k) : n[i] = k[i] \/ (n[i] \in Separators /\ k[i] \in Separators)

\* the name is one of the table's, with any of its separators written '.' or '/'
Known(e) == \E k \in DOMAIN entrypoints : SpelledLike(e, k)

\* C1: as long as no set_data has succeeded, Opa::eval fails with the no-data
\* error for every entrypoint of the table, whatever the input and the strategy,
\* and so does eval_context; the guest's evaluation export is not called.
C1_NoDataBeforeSetData ==
    (Free /\ dataset = None) =>
        /\ \A e \in Names, x \in HostValues, O \in OutTypes :
              Known(e) =>
                  LET r == eval(Engine, e, x, O)
                  IN  r.res = Err(NoData) /\ r.st.evaluated = "none"
        /\ \A x \in HostValues :
              LET r == eval_context(Engine, x)
              IN  r.res = Err(NoData) /\ r.st.evaluated = "none"

C1_Witness ==
    /\ last.op = "eval" /\ last.known /\ last.res = NoData
    /\ dataset = None /\ minor_version >= 2

\* C2, as claimed: with a dataset set, Opa::eval and EvalContext::eval called with
\* a name that is not in the table fail with the invalid-entrypoint error, and
\* the guest's evaluation export is not called.
C2_UnknownEntrypointAlways ==
    /\ (Free /\ dataset # None) =>
          \A e \in Names, x \in HostValues, O \in OutTypes :
              ~Known(e) =>
                  LET r == eval(Engine, e, x, O)
                  IN  r.res = Err(InvalidEntrypoint) /\ r.st.evaluated = "none"
    /\ Live =>
          \A e \in Names, O \in OutTypes :
              ~Known(e) =>
                  LET r == ctx_eval(Engine, ctx[1], e, O)
                  IN  r.res = Err(InvalidEntrypoint) /\ r.st.evaluated = "none"

\* Opa::eval gets the input into the memory: the host's growth for it succeeds
\* (ABI minor version >= 2), or the context is created
InputWritten(x) ==
    IF minor_version >= 2 THEN grow_for_input(Engine, JsonLen(JValue(x))).res.tag = "Ok"
    ELSE create(Engine, x).res.tag = "Ok"

\* C2, amended: with a dataset set, EvalContext::eval called with a name that is
\* not in the table fails with the invalid-entrypoint error, and so does Opa::eval
\* when its input serializes and is written to the memory; when the input does
\* not serialize, or the memory cannot take it, Opa::eval fails with that error,
\* which comes first.  The guest's evaluation export is called in none of these
\* cases.
C2_UnknownEntrypoint ==
    /\ (Free /\ dataset # None) =>
          \A e \in Names, x \in HostValues, O \in OutTypes :
              ~Known(e) =>
                  LET r == eval(Engine, e, x, O)
                  IN  /\ r.st.evaluated = "none"
                      /\ r.res.tag = IF ~Serializes(x) THEN SerializeError
                                     ELSE IF InputWritten(x) THEN InvalidEntrypoint
                                     ELSE IF minor_version >= 2 THEN GrowError ELSE Panic
    /\ Live =>
          \A e \in Names, O \in OutTypes :
              ~Known(e) =>
                  LET r == ctx_eval(Engine, ctx[1], e, O)
                  IN  r.res = Err(InvalidEntrypoint) /\ r.st.evaluated = "none"

C2_Witness ==
    /\ last.op = "eval" /\ ~last.known /\ last.res = InvalidEntrypoint
    /\ last.prior /\ last.evaluated = "none"

\* C3: every name of the table, written with '/' or with '.' separators, resolves
\* to the id the table holds for it.
C3_SeparatorsResolveAlike ==
    Ready =>
        \A k \in DOMAIN entrypoints, n \in Names :
            SpelledLike(n, k) => entrypoint_id(Engine, n) = Ok(entrypoints[k])

C3_Witness ==
    /\ last.op \in {"eval", "ctx_eval"} /\ last.dotted /\ last.known
    /\ last.res = "Ok"

\* C4: after build, every call of entrypoints() yields exactly the names the
\* module's entrypoints export published, written with '/' separators.
C4_EntrypointsArePublished ==
    Ready =>
        /\ entrypoints_iter(Engine) = DOMAIN module.entrypoints
        /\ \A n \in entrypoints_iter(Engine) : ~contains_dot(n)

C4_Witness ==
    /\ last.op = "entrypoints" /\ last.prior
    /\ Cardinality(entrypoints_iter(Engine)) = Cardinality(ModuleRules)

\* the instance right after build
Fresh == init(NewOpa).st

\* C5: set_data supersedes.  After a successful set_data(d), whatever ran before
\* it, the dataset address, both checkpoints and the guest heap pointer are those
\* of set_data(d) on a fresh instance, and every later eval returns what it
\* returns there; the dataset address and the checkpoints stay so until the next
\* set_data.
C5_SetDataSupersedes ==
    (Ready /\ dataset # None) =>
        LET f == set_data(Fresh, dataset[1]).st
        IN  /\ data_addr = f.data_addr
            /\ data_heap_ptr = f.data_heap_ptr
            /\ input_heap_ptr = f.input_heap_ptr
            /\ (last.op = "set_data" /\ last.res = "Ok") => heap = f.heap
            /\ Free =>
                  \A e \in Names, x \in HostValues, O \in OutTypes :
                      eval(Engine, e, x, O).res = eval(f, e, x, O).res

C5_Witness == last.op = "set_data" /\ last.res = "Ok" /\ last.prior

\* C6: on an instance of ABI minor version >= 2 with a dataset set, a successful
\* Opa::eval leaves the guest heap pointer at the input checkpoint, and the same
\* eval run again returns the same result and leaves the linear memory at the
\* size the first one left it.
C6_EvalRewindsHeap ==
    /\ (Ready /\ minor_version >= 2 /\ last.op = "eval" /\ last.res = "Ok") =>
          heap = input_heap_ptr
    /\ (Free /\ minor_version >= 2 /\ dataset # None) =>
          \A e \in Names, x \in HostValues, O \in OutTypes :
              LET r1 == eval(Engine, e, x, O)
                  r2 == eval(r1.st, e, x, O)
              IN  r1.res.tag = "Ok" =>
                      /\ r1.st.heap = r1.st.input_heap_ptr
                      /\ r2.res = r1.res
                      /\ r2.st.heap = r2.st.input_heap_ptr
                      /\ r2.st.pages = r1.st.pages

C6_Witness ==
    /\ last.op = "eval" /\ last.res = "Ok" /\ last.evaluated = "opa_eval"
    /\ pages > InitialPages

\* C7: while a context lives, the guest heap pointer is where it was when the
\* context was created: every EvalContext::eval, whatever the entrypoint and
\* its outcome, leaves the heap pointer where it found it.
C7_CtxEvalKeepsHeap ==
    Live =>
        /\ heap = ctx_heap
        /\ \A e \in Names, O \in OutTypes :
              ctx_eval(Engine, ctx[1], e, O).st.heap = heap

C7_Witness ==
    /\ Live /\ last.op = "ctx_eval" /\ last.res = "Ok" /\ last.evaluated = "eval"

\* C8: with the dataset fixed, ctx.eval(e1) then ctx.eval(e2) on a context made
\* for input X return what the single-shot Opa::eval(e1, X) and Opa::eval(e2, X)
\* return, for every e1 and e2 in either order.
C8_ContextMatchesSingleShot ==
    Live =>
        \A e1 \in Names, e2 \in Names, O \in OutTypes :
            LET a == ctx_eval(Engine, ctx[1], e1, O)
                b == ctx_eval(a.st, ctx[1], e2, O)
                released == drop(Engine, FALSE).st
            IN  /\ a.res = eval(released, e1, ctx_input[1], O).res
                /\ b.res = eval(released, e2, ctx_input[1], O).res

C8_Witness ==
    /\ Live /\ last.op = "ctx_eval" /\ last.res = "Ok" /\ last.records >= 1
    /\ minor_version >= 2

\* eval_context(input), one ctx.eval(entrypoint), ctx.destroy()
ContextSequence(s, e, x, O) ==
    LET c == eval_context(s, x)
    IN  IF c.res.tag # "Ok" THEN c
        ELSE LET r == ctx_eval(c.st, c.res.val, e, O)
             IN  Return(destroy(r.st).st, r.res)

\* C9: Opa::eval runs the single call (opa_eval) when the ABI minor version is
\* >= 2 and only then; below 2 its result and the engine it leaves are those of
\* eval_context(input), one ctx.eval(entrypoint) and ctx.destroy().
C9_EvalDispatch ==
    Free =>
        \A e \in Names, x \in HostValues, O \in OutTypes :
            LET r == eval(Engine, e, x, O)
                q == ContextSequence(Engine, e, x, O)
            IN  IF minor_version >= 2
                THEN r.st.evaluated \in {"none", "opa_eval"} /\ r = eval_once(Engine, e, x, O)
                ELSE /\ r.st.evaluated \in {"none", "eval"}
                     /\ r.res = q.res
                     /\ Collect(r.st, None) = Collect(q.st, None)

C9_Witness ==
    /\ last.op = "eval" /\ last.res = "Ok" /\ last.evaluated = "eval"
    /\ minor_version < 2

\* the last record's result, or the error of an empty sequence
LastRecord(out) == IF Len(out) = 0 THEN Err(NoResult) ELSE Ok(out[Len(out)])

Decodes(out, O) == \A i \in 1..Len(out) : O = "Value" \/ JsonType(out[i]) = O

\* C10: when the guest's evaluation returns n records {result: r_i} of the type
\* asked for, Opa::eval in the single-call strategy and EvalContext::eval return
\* r_n if n >= 1 and an error if n = 0.
C10_LastRecordIsReturned ==
    /\ (Free /\ minor_version >= 2) =>
          \A e \in Names, x \in HostValues, O \in OutTypes :
              LET r == eval(Engine, e, x, O)
              IN  (/\ r.st.evaluated = "opa_eval" /\ ~r.st.aborted
                   /\ r.st.guest_out.t = "results"
                   /\ Decodes(r.st.guest_out.v, O))
                      => r.res = LastRecord(r.st.guest_out.v)
    /\ Live =>
          \A e \in Names, O \in OutTypes :
              LET r == ctx_eval(Engine, ctx[1], e, O)
              IN  (/\ r.st.evaluated = "eval" /\ ~r.st.aborted
                   /\ r.st.guest_out.t = "results"
                   /\ Decodes(r.st.guest_out.v, O))
                      => r.res = LastRecord(r.st.guest_out.v)

C10_Witness ==
    /\ last.op = "eval" /\ last.res = "Ok" /\ last.evaluated = "opa_eval"
    /\ last.records >= 2

\* the operations that take the engine by reference
EngineOps == {"set_data", "eval", "decide", "eval_context", "entrypoints"}

\* the ways a context ends: destroy, the drop at the end of its scope, the drop
\* of an unwinding thread (the caller's panic, or a panic of its own eval)
ContextEnds == {"destroy", "drop", "unwind", "ctx_eval"}

\* C11: an engine has at most one live EvalContext at any time; while a context
\* lives no set_data, Opa::eval, Opa::decide or eval_context runs on the engine,
\* and the context stops living only by being destroyed or dropped, after which
\* those operations run again.
C11_OneLiveContext ==
    /\ [](Len(ctx) <= 1)
    /\ [][last'.op \in EngineOps => ctx = None]_vars
    /\ [][(ctx # None /\ ctx' = None) => last'.op \in ContextEnds]_vars
    /\ []((Ready /\ last.op \in {"destroy", "drop"}) => Free)

C11_Witness ==
    /\ Live /\ last.op = "ctx_eval" /\ last.res = "Ok" /\ dataset # None

\* C12: a successful EvalContext::destroy leaves the guest heap pointer at the
\* input checkpoint, has made the release call once (no drop runs a second one),
\* and ends the context: no eval on it can follow.
C12_DestroyReleasesOnce ==
    /\ Live =>
          LET r == destroy(Engine)
          IN  r.res.tag = "Ok" =>
                  /\ r.st.heap = input_heap_ptr
                  /\ r.st.releases = 1
                  /\ r.st.mem = mem /\ r.st.pages = pages
    /\ (last.op = "destroy" /\ last.res = "Ok") =>
          /\ heap = input_heap_ptr
          /\ last.releases = 1
          /\ ~Live

C12_Witness ==
    /\ last.op = "destroy" /\ last.res = "Ok" /\ last.releases = 1
    /\ Ready /\ dataset # None /\ heap = input_heap_ptr

\* C13, as claimed: when the release fails inside EvalContext::destroy, destroy
\* returns that failure as an error and does not panic.
C13_DestroyReturnsFailure ==
    /\ Live =>
          \A traps \in TrapCounts \ {0} :
              destroy(Faulty(traps, "text")).res = Err(GuestTrap)
    /\ (last.op = "destroy" /\ last.res # "Ok") => last.res = GuestTrap

\* C14: a context dropped without destroy makes the release call destroy makes;
\* when it succeeds the heap pointer is at the input checkpoint; when it fails
\* the drop panics if the thread is not unwinding, and returns with the failure
\* suppressed if it is.
C14_DropReleasesOrPanics ==
    /\ Live =>
          \A traps \in TrapCounts, panicking \in BOOLEAN :
              LET d == drop(Faulty(traps, "text"), panicking)
              IN  /\ d.st.releases = 1
                  /\ traps = 0 =>
                        /\ d.res = Ok(0)
                        /\ Collect(d.st, None) = Collect(destroy(Engine).st, None)
                  /\ traps > 0 =>
                        /\ d.res = IF panicking THEN Ok(0) ELSE Err(Panic)
                        /\ d.st.heap = heap
    /\ (last.op = "drop" /\ Ready) => heap = input_heap_ptr /\ last.res = "Ok"
    /\ (last.op = "drop" /\ ~Ready) => last.res = Panic
    /\ last.op = "unwind" => last.res = "Ok"

C14_Witness == last.op = "drop" /\ last.res = Panic /\ phase = "panicked"

\* C15, as claimed: on an instance of ABI minor version < 2, a set_data after the
\* first frees the prior dataset address through the guest's free export before
\* it writes, and the engine then holds one dataset address.
C15_SetDataFreesPrior ==
    (Ready /\ minor_version < 2 /\ last.op = "set_data" /\ last.res = "Ok" /\ last.prior) =>
        last.frees >= 1 /\ data_addr # None

\* C15, amended: on an instance of ABI minor version < 2, set_data never calls the
\* guest's free export; it rewinds the heap pointer to the data checkpoint and
\* writes there, so after any number of set_data calls the engine holds one
\* dataset address and the allocated region above the data checkpoint holds the
\* text and the document of the last dataset alone.
C15_SetDataRewinds ==
    /\ (Free /\ minor_version < 2) =>
          \A d \in Values :
              LET r == set_data(Engine, d)
              IN  /\ r.res = Ok(0) \/ r.st.aborted
                  /\ r.st.frees = 0
                  /\ r.res = Ok(0) =>
                        /\ r.st.data_addr = Some(data_heap_ptr + JsonLen(JValue(d)))
                        /\ DocAt(r.st.mem, r.st.data_addr[1]) = JValue(d)
                        /\ r.st.heap = data_heap_ptr + JsonLen(JValue(d)) + DocLen(JValue(d))
                        /\ {a \in DOMAIN r.st.mem :
                               a >= data_heap_ptr /\ a < r.st.heap
                                   /\ r.st.mem[a].kind = "doc"}
                               = {r.st.data_addr[1]}
    /\ (minor_version < 2 /\ last.op = "set_data") => last.frees = 0

C15_Witness ==
    /\ Ready /\ minor_version < 2 /\ last.op = "set_data" /\ last.res = "Ok" /\ last.prior
    /\ last.frees = 0 /\ heap = input_heap_ptr

\* C16, as claimed: on an instance of ABI minor version < 2, a destroy or a drop
\* frees the context's input address and its record address through the guest's
\* free export.
C16_DestroyFreesContext ==
    (minor_version < 2 /\ last.op \in {"destroy", "drop"} /\ last.res = "Ok") =>
        last.frees = 2

\* C16, amended: on an instance of ABI minor version < 2, a destroy or a drop
\* never calls the guest's free export; it rewinds the heap pointer to the input
\* checkpoint, below which neither the context's input document nor its record
\* lies, so both are in the region the rewind gives back.
C16_DestroyRewinds ==
    /\ (Live /\ minor_version < 2) =>
          /\ input_heap_ptr <= CtxAt(mem, ctx[1]).input
          /\ input_heap_ptr <= ctx[1]
          /\ DocAt(mem, CtxAt(mem, ctx[1]).input) = JValue(ctx_input[1])
          /\ LET r == destroy(Engine)
             IN  r.res = Ok(0) /\ r.st.frees = 0 /\ r.st.heap = input_heap_ptr
          /\ LET d == drop(Engine, FALSE)
             IN  d.res = Ok(0) /\ d.st.frees = 0 /\ d.st.heap = input_heap_ptr
    /\ (minor_version < 2 /\ last.op \in {"destroy", "drop", "unwind"}) => last.frees = 0

C16_Witness ==
    /\ Ready /\ minor_version < 2 /\ last.op = "drop" /\ last.res = "Ok"
    /\ last.frees = 0 /\ heap = input_heap_ptr /\ dataset # None

\* the engine's persistent state
Persistent(s) ==
    <<s.entrypoints, s.data_addr, s.data_heap_ptr, s.input_heap_ptr, s.pages>>

ConfigurationErrors == {NoData, InvalidEntrypoint}

\* C17, as claimed: an Opa::eval or eval_context that fails with the no-data or
\* the invalid-entrypoint error leaves the entrypoint table, the dataset address,
\* both checkpoints and the size of the memory as they were.
C17_ConfigErrorsChangeNothing ==
    Free =>
        /\ \A e \in Names, x \in HostValues, O \in OutTypes :
              LET r == eval(Engine, e, x, O)
              IN  r.res.tag \in ConfigurationErrors => Persistent(r.st) = Persistent(Engine)
        /\ \A x \in HostValues :
              LET r == eval_context(Engine, x)
              IN  r.res.tag \in ConfigurationErrors => Persistent(r.st) = Persistent(Engine)

\* C17, amended: a call that fails with the no-data error leaves the entrypoint
\* table, the dataset address, both checkpoints and the size of the memory as
\* they were; an Opa::eval that fails with the invalid-entrypoint error leaves the
\* table, the dataset address and both checkpoints as they were, and the memory
\* no smaller: the input is written, and the memory grown for it, before the
\* name is looked up.
C17_ConfigErrorsKeepCheckpoints ==
    Free =>
        /\ \A e \in Names, x \in HostValues, O \in OutTypes :
              LET r == eval(Engine, e, x, O)
              IN  /\ r.res.tag = NoData => Persistent(r.st) = Persistent(Engine)
                  /\ r.res.tag = InvalidEntrypoint =>
                        /\ Persistent([r.st EXCEPT !.pages = pages]) = Persistent(Engine)
                        /\ r.st.pages >= pages
        /\ \A x \in HostValues :
              LET r == eval_context(Engine, x)
              IN  /\ r.res.tag # InvalidEntrypoint
                  /\ r.res.tag = NoData => Persistent(r.st) = Persistent(Engine)

C17_Witness ==
    /\ last.op = "eval" /\ last.res = InvalidEntrypoint /\ last.prior
    /\ pages > InitialPages + 1

\* C18: the entrypoint table is the one build decoded and no later call, failing
\* or not, changes it.
C18_EntrypointTableIsFixed ==
    /\ [][phase # "new" => entrypoints' = entrypoints]_vars
    /\ [](Ready => entrypoints = Fresh.entrypoints)

C18_Witness ==
    /\ Live /\ last.op = "ctx_eval" /\ last.res = DecodeError
    /\ Cardinality(DOMAIN entrypoints) = Cardinality(ModuleRules)

\* C19, as claimed: the engine's ABI minor version is the value of the module's
\* opa_wasm_abi_minor_version global when the module exports it and 0 when it
\* does not.
C19_VersionIsTheGlobal ==
    Ready => minor_version = IF module.abi # <<>> THEN module.abi[1] ELSE 0

\* C19, amended: the engine's ABI minor version is the value of the module's
\* opa_wasm_abi_minor_version global when the module exports it with a value that
\* is not negative, and 0 when the global is absent or negative; it is set during
\* build and no later operation changes it, so neither does the strategy.
C19_VersionIsReadOnce ==
    /\ [](Ready => minor_version =
                      IF module.abi # <<>> /\ module.abi[1] >= 0 THEN module.abi[1] ELSE 0)
    /\ [][phase # "new" => minor_version' = minor_version]_vars
    /\ [][phase # "new" => (minor_version' >= 2) = (minor_version >= 2)]_vars

C19_Witness ==
    /\ Ready /\ module.abi = <<-1>> /\ minor_version = 0
    /\ last.op = "eval" /\ last.res = "Ok" /\ last.evaluated = "eval"

\* C20, as claimed: json_at does not panic, whatever the guest left at the dumped
\* address: it returns the decoded value or an error.
C20_JsonAtNeverPanics ==
    /\ Ready =>
          \A dump \in DumpKinds, addr \in DOMAIN mem :
              json_at(Faulty(0, dump), addr).res.tag # Panic
    /\ last.op \in {"build", "ctx_eval"} => last.res # Panic

\* the pages the host misses to hold an input at the input checkpoint
MissingPages(x) ==
    IF data_size(Engine) < input_heap_ptr + JsonLen(JValue(x))
    THEN round_up(input_heap_ptr + JsonLen(JValue(x)) - data_size(Engine))
    ELSE 0

\* C21: the memory has 2 pages at build; its size, counted in pages, never
\* decreases in any step, and never exceeds max_memory_pages when one is set; an
\* eval whose input needs the host to grow the memory past the maximum fails with
\* the growth's error and leaves the size as it was.
C21_MemoryGrowsWithinMaximum ==
    /\ [](phase = "new" => pages = InitialPages)
    /\ [][pages' >= pages]_vars
    /\ [](pages \in Nat /\ data_size(Engine) = pages * PAGE_SIZE)
    /\ [](builder.buffer_max_mem_pages # None => pages <= builder.buffer_max_mem_pages[1])
    /\ []((Free /\ minor_version >= 2 /\ dataset # None
              /\ builder.buffer_max_mem_pages # None) =>
              \A e \in Names, x \in Values, O \in OutTypes :
                  pages + MissingPages(x) > builder.buffer_max_mem_pages[1] =>
                      LET r == eval(Engine, e, x, O)
                      IN  r.res = Err(GrowError) /\ r.st.pages = pages)

C21_Witness ==
    /\ last.op = "eval" /\ last.res = GrowError /\ last.prior
    /\ builder.buffer_max_mem_pages = Some(3) /\ pages = InitialPages

\* the dataset address and the two checkpoints
Checkpoints == <<data_heap_ptr, input_heap_ptr, data_addr>>

\* C26: the data checkpoint is fixed at build; the input checkpoint equals it
\* until the first successful set_data; a successful set_data leaves the input
\* checkpoint at the guest heap pointer it reached, with data checkpoint <=
\* dataset address < input checkpoint; no call other than build and set_data
\* changes a checkpoint or the dataset address.
C26_CheckpointsAreOrdered ==
    /\ [][phase # "new" => data_heap_ptr' = data_heap_ptr]_vars
    /\ []((Ready /\ dataset = None) =>
              input_heap_ptr = data_heap_ptr /\ data_addr = None)
    /\ []((Ready /\ dataset # None) =>
              data_heap_ptr <= data_addr[1] /\ data_addr[1] < input_heap_ptr)
    /\ [](Free =>
              \A d \in HostValues :
                  LET r == set_data(Engine, d)
                  IN  r.res.tag = "Ok" =>
                          /\ r.st.input_heap_ptr = r.st.heap
                          /\ r.st.data_heap_ptr = data_heap_ptr
                          /\ r.st.data_heap_ptr <= r.st.data_addr[1]
                          /\ r.st.data_addr[1] < r.st.input_heap_ptr)
    /\ [][last'.op \notin {"build", "set_data"} => Checkpoints' = Checkpoints]_vars

C26_Witness ==
    /\ Ready /\ last.op = "set_data" /\ last.res = "Ok" /\ last.prior
    /\ input_heap_ptr = heap /\ data_heap_ptr < data_addr[1]

\* the smallest number of pages that, added to the memory, make n bytes fit
FewestPages(n) ==
    CHOOSE k \in 0..(n \div PAGE_SIZE + 1) :
        /\ (pages + k) * PAGE_SIZE >= n
        /\ k > 0 => (pages + k - 1) * PAGE_SIZE < n

\* C27: in the single-call strategy the host grows the memory only when its size
\* is smaller than input checkpoint + input length, and then by the smallest
\* number of pages after which the input fits, ceil((input checkpoint + input
\* length - size) / 65536); an input that fits grows nothing.  (An unknown
\* entrypoint keeps the guest, which grows the memory too, from running.)
C27_HostGrowsByFewestPages ==
    (Free /\ minor_version >= 2 /\ dataset # None) =>
        \A e \in Names, x \in Values, O \in OutTypes :
            LET n == input_heap_ptr + JsonLen(JValue(x))
                g == grow_for_input(Engine, JsonLen(JValue(x)))
                r == eval(Engine, e, x, O)
            IN  /\ n <= data_size(Engine) => g = Return(Engine, Ok(0))
                /\ g.res.tag = "Ok" =>
                      /\ g.st.pages = pages + FewestPages(n)
                      /\ g.st.pages - pages =
                            (IF n > data_size(Engine)
                             THEN (n - data_size(Engine) + PAGE_SIZE - 1) \div PAGE_SIZE
                             ELSE 0)
                      /\ ~Known(e) => r.st.pages = pages + FewestPages(n)

C27_Witness ==
    /\ last.op = "eval" /\ last.res = InvalidEntrypoint /\ last.prior
    /\ minor_version >= 2 /\ pages = InitialPages + 2
    /\ (pages - 1) * PAGE_SIZE < input_heap_ptr + JsonLen(JValue(MaxVal))

\* C28: eval_context rewinds the guest heap pointer to the input checkpoint
\* before it writes, so its outcome, the addresses of the input document and of
\* the context record and the heap pointer after the creation are those of the
\* first context created after set_data on a fresh instance, whatever calls came
\* before and wherever they left the heap pointer.
C28_ContextsAreCreatedAlike ==
    (Free /\ dataset # None) =>
        \A x \in HostValues :
            LET r == eval_context(Engine, x)
                f == eval_context(set_data(Fresh, dataset[1]).st, x)
            IN  /\ r.res = f.res
                /\ r.res.tag = "Ok" =>
                      /\ CtxAt(r.st.mem, r.res.val) = CtxAt(f.st.mem, f.res.val)
                      /\ CtxAt(r.st.mem, r.res.val).input =
                            input_heap_ptr + JsonLen(JValue(x))
                      /\ r.res.val = input_heap_ptr + JsonLen(JValue(x)) + DocLen(JValue(x))
                      /\ r.st.heap = r.res.val + CtxLen
                      /\ r.st.heap = f.st.heap

C28_Witness ==
    /\ Live /\ last.op = "eval_context" /\ last.res = "Ok"
    /\ dataset = Some(0) /\ ctx_input = Some(0) /\ pages > InitialPages
    /\ ctx[1] = input_heap_ptr + JsonLen(JValue(0)) + DocLen(JValue(0))

\* the engine with the guest heap pointer left at h
LeftAt(h) == [Engine EXCEPT !.heap = h]

\* where a failed call may have left the guest heap pointer
HeapsLeft == {data_heap_ptr, input_heap_ptr, heap, heap + ScratchLen, heap + PAGE_SIZE}

\* C29: what a failed call allocated is reclaimed by the next call: wherever the
\* guest heap pointer was left, set_data writes the dataset's text at the data
\* checkpoint, eval and eval_context write the input's text at the input
\* checkpoint, and each returns and leaves what it does when the heap pointer
\* stands at the checkpoint (an eval that fails before it calls the guest leaves
\* the heap pointer where it found it).
C29_NextCallReclaims ==
    Free =>
        /\ \A d \in HostValues, h \in HeapsLeft :
              LET r == set_data(LeftAt(h), d)
              IN  /\ r = set_data(LeftAt(data_heap_ptr), d)
                  /\ r.res.tag = "Ok" =>
                        /\ TextAt(r.st.mem, data_heap_ptr) = JValue(d)
                        /\ r.st.data_addr = Some(data_heap_ptr + JsonLen(JValue(d)))
        /\ \A x \in HostValues, h \in HeapsLeft :
              LET r == eval_context(LeftAt(h), x)
              IN  /\ r = eval_context(LeftAt(input_heap_ptr), x)
                  /\ r.res.tag = "Ok" =>
                        /\ TextAt(r.st.mem, input_heap_ptr) = JValue(x)
                        /\ CtxAt(r.st.mem, r.res.val).input =
                              input_heap_ptr + JsonLen(JValue(x))
        /\ \A e \in Names, x \in HostValues, O \in OutTypes, h \in HeapsLeft :
              LET r == eval(LeftAt(h), e, x, O)
                  q == eval(LeftAt(input_heap_ptr), e, x, O)
              IN  /\ r.res = q.res
                  /\ [r.st EXCEPT !.heap = q.st.heap] = q.st
                  /\ r.st.evaluated # "none" =>
                        /\ r.st.heap = q.st.heap
                        /\ TextAt(r.st.mem, input_heap_ptr) = JValue(x)
                        /\ DocAt(r.st.mem, input_heap_ptr + JsonLen(JValue(x))) = JValue(x)

C29_Witness ==
    /\ Free /\ last.op = "eval" /\ last.res = DecodeError /\ heap > input_heap_ptr
    /\ dataset # None

\* the dataset's document lies whole at the dataset address
DatasetIntact(m) == DocAt(m, data_addr[1]) = JValue(dataset[1])

\* the live context's record lies whole at its address, bound to the dataset and
\* to the document of its input, which lies whole as well
ContextIntact(m) ==
    /\ IsCtx(m, ctx[1])
    /\ CtxAt(m, ctx[1]).data = data_addr[1]
    /\ DocAt(m, CtxAt(m, ctx[1]).input) = JValue(ctx_input[1])

\* C30: with no guest trap, nothing the guest allocates or the host writes
\* overlaps a live object: the dataset's document stays whole from the set_data
\* that wrote it to the next one, through every eval, every context and every
\* evaluation on it; a live context's record and input document stay whole, at
\* their addresses, until the context is destroyed or dropped.
C30_LiveObjectsStayWhole ==
    /\ []((Ready /\ dataset # None) => DatasetIntact(mem))
    /\ [](Live => ContextIntact(mem) /\ DatasetIntact(mem))
    /\ [](Live =>
              \A e \in Names, O \in OutTypes :
                  LET r == ctx_eval(Engine, ctx[1], e, O)
                  IN  r.res.tag # Panic => ContextIntact(r.st.mem) /\ DatasetIntact(r.st.mem))
    /\ []((Free /\ dataset # None) =>
              /\ \A e \in Names, x \in HostValues, O \in OutTypes :
                    LET r == eval(Engine, e, x, O)
                    IN  r.res.tag # Panic => DatasetIntact(r.st.mem)
              /\ \A x \in HostValues :
                    LET r == eval_context(Engine, x)
                    IN  r.res.tag # Panic => DatasetIntact(r.st.mem))
    /\ [][(Live /\ Live') =>
              /\ ctx' = ctx /\ data_addr' = data_addr
              /\ CtxAt(mem', ctx[1]).input = CtxAt(mem, ctx[1]).input]_vars

C30_Witness ==
    /\ Live /\ last.op = "ctx_eval" /\ last.res = "Ok" /\ last.records >= 1
    /\ ContextIntact(mem) /\ DatasetIntact(mem) /\ heap = ctx_heap

\* a text lies at the address: n bytes of ASCII, none of them zero, and a zero byte
TextLies(b, a, n) ==
    /\ a + n + 1 <= Len(b) /\ b[a + n + 1] = 0
    /\ \A i \in 1..n : b[a + i] # 0

Readable(b, a) ==
    \E n \in 0..Len(b) : TextLies(b, a, n) /\ \A i \in 1..n : b[a + i] < 128

\* the string read at the address
StringRead(b, a) ==
    LET n == CHOOSE k \in 0..Len(b) : TextLies(b, a, k) IN [i \in 1..n |-> b[a + i]]

ImportCalled == io.done /\ io.op \in {"opa_abort", "opa_println"}

\* C22, as claimed: every call of opa_abort invokes the abort handler once, with
\* the string read at the address, and every call of opa_println invokes the log
\* handler once, with the string read at the address, and no abort handler.
C22_ImportsInvokeTheirHandler ==
    ImportCalled =>
        /\ Readable(io.bytes, io.addr)
        /\ io.out.calls =
              <<[handler |-> IF io.op = "opa_abort" THEN "abort" ELSE "println",
                 msg |-> StringRead(io.bytes, io.addr)]>>

\* C22, amended: when a zero-terminated UTF-8 text lies at the address, a call of
\* opa_abort invokes the abort handler once with it and a call of opa_println
\* the log handler once with it, and no abort handler.  When none lies there (no
\* zero byte up to the memory's end, or bytes that are not UTF-8) either import
\* invokes the abort handler once, with "invalid string in memory", and
\* opa_println invokes no log handler.  An address past the memory's end panics
\* before any handler is invoked.  The call panics as well when the abort handler
\* it invoked is the default one.
C22_ImportsInvokeOneHandler ==
    ImportCalled =>
        /\ io.out.calls =
              (IF io.addr > Len(io.bytes) THEN <<>>
               ELSE IF ~Readable(io.bytes, io.addr)
               THEN <<[handler |-> "abort", msg |-> InvalidString]>>
               ELSE <<[handler |-> IF io.op = "opa_abort" THEN "abort" ELSE "println",
                       msg |-> StringRead(io.bytes, io.addr)]>>)
        /\ io.out.res = Panic <=>
              \/ io.addr > Len(io.bytes)
              \/ /\ io.handlers.abort_cb = None
                 /\ io.op = "opa_abort" \/ ~Readable(io.bytes, io.addr)

C22_Witness ==
    /\ io.done /\ io.op = "opa_println" /\ io.handlers.abort_cb # None
    /\ io.addr < Len(io.bytes) /\ ~Readable(io.bytes, io.addr)
    /\ io.out = [calls |-> <<[handler |-> "abort", msg |-> InvalidString]>>,
                 res |-> "returned"]

BundleBuilt == io.done /\ io.op = "build_from_bundle"

\* the runtime can load the bundle's precompiled artifact
CanLoadArtifact ==
    /\ io.features.aot /\ io.bundle.wasmtime_bytes # None
    /\ io.bundle.wasmtime_bytes[1].loads

\* what building from a module returns: the error of creating the memory, of
\* instantiating the module or of init (a panic when the dumped entrypoints
\* have no terminating zero), or the instance
Built(kind, artifact) ==
    IF ~io.guest.memory THEN Err("memory")
    ELSE IF ~io.guest.instantiates THEN Err("instantiate")
    ELSE IF io.guest.dump = "malformed" THEN Err(DecodeError)
    ELSE IF io.guest.dump = "unterminated" THEN Err(Panic)
    ELSE Ok([from |-> kind, id |-> artifact.id])

\* the instance is the one init leaves: both checkpoints at the module's heap
\* base, the entrypoint table and the ABI minor version read, no dataset
Initialised ==
    /\ phase = "ready"
    /\ data_heap_ptr = module.heap_base /\ input_heap_ptr = module.heap_base
    /\ heap = module.heap_base + DocLen(JTable(module.entrypoints))
                + JsonLen(JTable(module.entrypoints)) + 1
    /\ entrypoints = module.entrypoints /\ minor_version = abi_minor_version
    /\ data_addr = None

\* C23, as claimed: build_from_bundle builds from the precompiled artifact when
\* the bundle carries one and the runtime can load it, otherwise from the first
\* raw module listed, and returns an error when the bundle has neither.
C23_ArtifactElseFirstModule ==
    BundleBuilt =>
        IF CanLoadArtifact
        THEN io.out = Built("native", io.bundle.wasmtime_bytes[1])
        ELSE IF io.bundle.wasm_policies # <<>>
        THEN io.out = IF io.bundle.wasm_policies[1].bytes.compiles
                      THEN Built("wasm", io.bundle.wasm_policies[1].bytes)
                      ELSE Err("compile")
        ELSE io.out.tag # "Ok"

\* the bundle carries an artifact and the crate can deserialize one
CarriesArtifact == io.features.aot /\ io.bundle.wasmtime_bytes # None

\* C23, amended: compiled with wasmtime-aot and given a bundle that carries a
\* precompiled artifact, build_from_bundle builds from it, and returns the error
\* of loading it when it does not load: the raw modules are not tried.
\* Otherwise, compiled with wasmtime-cranelift, it builds from the first raw
\* module listed, and returns an error when none is listed or the first does not
\* compile; compiled without wasmtime-cranelift it returns an error, whatever
\* raw modules the bundle lists.  Building from a module returns the initialised
\* instance, or the error of creating the memory, of instantiating the module
\* or of init; no instance is returned with an error.
C23_ArtifactElseCompiledModule ==
    BundleBuilt =>
        /\ (CarriesArtifact /\ io.bundle.wasmtime_bytes[1].loads) =>
              io.out = Built("native", io.bundle.wasmtime_bytes[1])
        /\ (CarriesArtifact /\ ~io.bundle.wasmtime_bytes[1].loads) =>
              io.out = Err("deserialize")
        /\ (~CarriesArtifact /\ io.features.cranelift /\ io.bundle.wasm_policies # <<>>) =>
              io.out = IF io.bundle.wasm_policies[1].bytes.compiles
                       THEN Built("wasm", io.bundle.wasm_policies[1].bytes)
                       ELSE Err("compile")
        /\ (~CarriesArtifact /\ io.features.cranelift /\ io.bundle.wasm_policies = <<>>) =>
              io.out = Err(NoModule)
        /\ (~CarriesArtifact /\ ~io.features.cranelift) => io.out = Err(NoPrecompiled)
        /\ io.out.tag = "Ok" => Initialised
        /\ io.out.tag # "Ok" => phase \in {"failed", "panicked"}
        /\ io.out.tag \notin {"Ok", DecodeError, Panic} =>
              /\ heap = NewOpa.heap /\ data_heap_ptr = NewOpa.data_heap_ptr
              /\ entrypoints = NewOpa.entrypoints /\ mem = NewOpa.mem

C23_Witness ==
    /\ BundleBuilt /\ io.features.aot /\ io.features.cranelift
    /\ io.bundle.wasmtime_bytes # None /\ ~io.bundle.wasmtime_bytes[1].loads
    /\ Len(io.bundle.wasm_policies) = 2 /\ io.bundle.wasm_policies[1].bytes.compiles
    /\ io.guest = [memory |-> TRUE, instantiates |-> TRUE, dump |-> "text"]
    /\ io.out = Err("deserialize") /\ phase = "failed"

\* from_reader returned a bundle
BundleRead == io.done /\ io.op = "from_reader" /\ io.out.tag = "Ok"

HasPath(ar, path) == \E i \in 1..Len(ar) : ar[i].path = path

\* the last entry of the archive with a path
LastAt(ar, path) ==
    ar[CHOOSE i \in 1..Len(ar) :
           ar[i].path = path /\ \A j \in (i + 1)..Len(ar) : ar[j].path # path]

\* one pair for each wasm entry of the archive's manifest whose module is the path
\* of a file of the archive, in the manifest's order
ListedPairs(ar) ==
    IF ~HasPath(ar, ManifestPath) THEN <<>>
    ELSE LET IsFile(w) == HasPath(ar, w.module) /\ w.module.ext \in {"wasm", "WASM"}
             listed == SelectSeq(LastAt(ar, ManifestPath).file.wasm, IsFile)
         IN  [i \in 1..Len(listed) |->
                 [entrypoint |-> listed[i].entrypoint,
                  bytes |-> LastAt(ar, listed[i].module).file]]

Orders(n) == {f \in [1..n -> 1..n] : \A i, j \in 1..n : i # j => f[i] # f[j]}

Reordered(ar, f) == [i \in 1..Len(ar) |-> ar[f[i]]]

NoPathTwice(ar) == \A i, j \in 1..Len(ar) : i # j => ar[i].path # ar[j].path

\* C24, as claimed: for any archive, wasm_policies holds in manifest order one
\* pair per manifest wasm entry whose module is the path of a .wasm file of the
\* archive, whatever the order of the archive's entries.
C24_PoliciesInAnyOrder ==
    BundleRead =>
        /\ io.out.val.wasm_policies = ListedPairs(io.ar)
        /\ \A f \in Orders(Len(io.ar)) :
              from_reader(Reordered(io.ar, f)).val.wasm_policies = io.out.val.wasm_policies

\* C24, amended: wasm_policies holds, in the manifest's order, one (entrypoint,
\* bytes) pair for each wasm entry of the manifest whose module is the path of a
\* .wasm file of the archive; a .wasm file no entry names is not exposed, and
\* with no manifest wasm_policies is empty.  Of several entries with one path
\* the last counts (the last manifest, the last file), so wasm_policies does not
\* depend on the order of the entries when no two of them have the same path.
C24_PoliciesAreTheListedFiles ==
    BundleRead =>
        /\ io.out.val.wasm_policies = ListedPairs(io.ar)
        /\ ~HasPath(io.ar, ManifestPath) => io.out.val.wasm_policies = <<>>
        /\ \A i \in 1..Len(io.out.val.wasm_policies) :
              \E j \in 1..Len(LastAt(io.ar, ManifestPath).file.wasm) :
                  /\ LastAt(io.ar, ManifestPath).file.wasm[j].entrypoint
                        = io.out.val.wasm_policies[i].entrypoint
                  /\ LastAt(io.ar, LastAt(io.ar, ManifestPath).file.wasm[j].module).file
                        = io.out.val.wasm_policies[i].bytes
        /\ NoPathTwice(io.ar) =>
              \A f \in Orders(Len(io.ar)) :
                  from_reader(Reordered(io.ar, f)).val.wasm_policies
                      = io.out.val.wasm_policies

C24_Witness ==
    /\ BundleRead /\ Len(io.ar) = MaxEntries /\ NoPathTwice(io.ar)
    /\ io.ar[1].path = ManifestPath /\ Len(io.ar[1].file.wasm) = 2
    /\ io.ar[2].path \in WasmPaths /\ io.ar[3].path \in WasmPaths
    /\ Len(io.out.val.wasm_policies) = 2
    /\ io.out.val.wasm_policies[1].entrypoint # io.out.val.wasm_policies[2].entrypoint

\* the entry is a manifest that is no JSON of a manifest, or a data file that is
\* no JSON
Malformed(e) ==
    \/ e.path = ManifestPath /\ e.file.t # "manifest"
    \/ e.path = DataPath /\ e.file.t = "malformed"

\* the first entry of the archive that does not parse
FirstMalformed(ar) ==
    ar[CHOOSE i \in 1..Len(ar) : Malformed(ar[i]) /\ \A j \in 1..(i - 1) : ~Malformed(ar[j])]

\* C25, as claimed: from_reader reports a /.manifest entry that does not parse as
\* InvalidManifest and a /data.json entry that does not parse as InvalidData.
C25_ParseErrorsNameTheirFile ==
    (io.done /\ io.op = "from_reader" /\ io.out.tag # "Ok") =>
        io.out = IF FirstMalformed(io.ar).path = ManifestPath THEN Err(InvalidManifest)
                 ELSE Err(InvalidData)


\* C31, as claimed: in the single-call strategy, once the guest's opa_eval has
\* returned, Opa::eval returns with the guest heap pointer at the input
\* checkpoint, whether it returns a result, finds no record in the returned
\* document or fails to decode it as the type asked for.
C31_EvalOnceAlwaysRewinds ==
    (Free /\ minor_version >= 2) =>
        \A e \in Names, x \in HostValues, O \in OutTypes :
            LET r == eval(Engine, e, x, O)
            IN  (r.st.evaluated = "opa_eval" /\ ~r.st.aborted) =>
                    /\ r.res.tag \in {"Ok", NoResult, DecodeError}
                    /\ r.st.heap = input_heap_ptr


\* C32: a set_data whose value does not serialize fails with the serialization
\* error and leaves the dataset address, the data checkpoint and the input
\* checkpoint as they were, and the dataset's document in place; an eval that
\* follows returns, for every entrypoint, input and type, what it returned
\* before the failed call.
C32_FailedSetDataKeepsDataset ==
    Free =>
        \A d \in HostValues : ~Serializes(d) =>
            LET r == set_data(Engine, d)
            IN  /\ r.res = Err(SerializeError)
                /\ r.st.data_addr = data_addr
                /\ r.st.data_heap_ptr = data_heap_ptr
                /\ r.st.input_heap_ptr = input_heap_ptr
                /\ \A a \in Reachable(Engine, None) \cap DOMAIN mem :
                      a \in DOMAIN r.st.mem /\ r.st.mem[a] = mem[a]
                /\ \A e \in Names, x \in HostValues, O \in OutTypes :
                      eval(Collect(r.st, None), e, x, O).res = eval(Engine, e, x, O).res

C32_Witness ==
    /\ Free /\ last.op = "set_data" /\ last.res = SerializeError /\ last.prior
    /\ data_addr # None /\ heap = data_heap_ptr /\ input_heap_ptr > data_heap_ptr
    /\ \E e \in Names, x \in HostValues, O \in OutTypes :
          eval(Engine, e, x, O).res.tag = "Ok"


\* C33: as long as no dataset has been set, Opa::eval called with a name that is
\* not in the table fails with the no-data error, not with the
\* invalid-entrypoint error, whatever the input: in the single-call strategy
\* (minor version >= 2) and in the context strategy (minor version < 2) alike,
\* and the guest's evaluation export is not called.
C33_NoDataBeforeUnknownEntrypoint ==
    (Free /\ data_addr = None) =>
        \A e \in Names, x \in HostValues, O \in OutTypes :
            ~Known(e) =>
                /\ entrypoint_id(Engine, e) = Err(InvalidEntrypoint)
                /\ minor_version >= 2 =>
                      eval_once(Engine, e, x, O).res = Err(NoData)
                /\ minor_version < 2 =>
                      eval_with_context(Engine, e, x, O).res = Err(NoData)
                /\ eval(Engine, e, x, O).res = Err(NoData)
                /\ eval(Engine, e, x, O).st.evaluated = "none"

C33_Witness ==
    /\ Free /\ last.op = "eval" /\ ~last.known /\ last.res = NoData
    /\ last.evaluated = "none" /\ data_addr = None /\ minor_version < 2


\* C34: in the context strategy (minor version < 2), an Opa::eval whose context
\* was created and whose ctx.eval fails, with the invalid-entrypoint error, a
\* decoding error or the no-result error, releases the context once before it
\* returns that error: it returns with the guest heap pointer at the input
\* checkpoint, as a successful eval does, whatever the guest dumps and however
\* many of its release calls trap (an eval whose release fails does not return
\* one of these results).
C34_FailedEvalReleasesContext ==
    (Free /\ minor_version < 2 /\ data_addr # None) =>
        \A e \in Names, x \in HostValues, O \in OutTypes,
           traps \in TrapCounts, dump \in DumpKinds :
            LET r == eval(Faulty(traps, dump), e, x, O)
                c == create(Faulty(traps, dump), x)
            IN  /\ (c.res.tag = "Ok" /\ c.st.heap > input_heap_ptr
                        /\ r.res.tag \in {"Ok", InvalidEntrypoint, DecodeError, NoResult}) =>
                      /\ r.st.heap = input_heap_ptr
                      /\ r.st.releases = 1
                /\ (c.res.tag = "Ok" /\ ~Known(e) /\ traps = 0) =>
                      r.res = Err(InvalidEntrypoint)
                /\ (c.res.tag = "Ok" /\ ~Known(e) /\ traps > 0) =>
                      r.res = Err(Panic)

C34_Witness ==
    /\ Free /\ minor_version < 2 /\ data_addr # None
    /\ last.op = "eval" /\ last.res = DecodeError /\ last.evaluated = "eval"
    /\ last.releases = 1 /\ heap = input_heap_ptr

====
